---------------------------- MODULE Spec2Model ----------------------------
(***************************************************************************)
(* Model of the go-exceptions runtime (package goexceptions): the failure  *)
(* kinds, the Exception wrapper and its Inner chain, Try (panic/recover    *)
(* normalisation), the process-wide type cache behind isTypeMatch, and the *)
(* three dispatch styles (Catch, When/On/Any/Finally/End, Handle) together *)
(* with Any, Finally and Rethrow on a TryResult.                           *)
(*                                                                         *)
(* The caller is modelled as a single goroutine that issues library calls  *)
(* one after the other.  User callbacks (handlers, cleanup actions) are    *)
(* inputs: each either returns or panics, and every invocation is recorded *)
(* in the history variable `last`, which the caller clears (Resume) before *)
(* it issues its next call.                                                *)
(***************************************************************************)
EXTENDS Integers, Sequences, FiniteSets, TLC

(***************************************************************************)
(* Bounds                                                                  *)
(***************************************************************************)
\* length of the longest Inner chain the caller builds
MaxChain == 2
\* number of entries of a Handle(...) argument list
MaxHandlers == 2

\* number of goroutines that call the library in parallel
MaxGoroutines == 2
\* number of Exception values a caller that drops nothing keeps
MaxKept == 3

\* deepest call nesting between tryBlock and a throw or panic site
MaxDepth == 14

\* most statements in a modelled tryBlock
MaxScript == 3

(***************************************************************************)
(* Failure kinds.  A kind value is a record with its runtime (dynamic)     *)
(* type and its fields.  CustomA and CustomB are two user-defined struct   *)
(* types with the same fields and the same TypeName() string.              *)
(***************************************************************************)
KindTypes == {"InvalidOperationException", "ArgumentNullException", "CustomA", "CustomB"}

InvalidOperationException(message) ==
    [type |-> "InvalidOperationException", ParamName |-> "", Message |-> message]

ArgumentNullException(paramName, message) ==
    [type |-> "ArgumentNullException", ParamName |-> paramName, Message |-> message]

CustomA(message) == [type |-> "CustomA", ParamName |-> "", Message |-> message]

CustomB(message) == [type |-> "CustomB", ParamName |-> "", Message |-> message]

\* TypeName() of a kind value: the human label
TypeName(k) ==
    CASE k.type = "InvalidOperationException" -> "InvalidOperationException"
      [] k.type = "ArgumentNullException"     -> "ArgumentNullException"
      [] k.type = "CustomA"                   -> "CustomException"
      [] k.type = "CustomB"                   -> "CustomException"

\* Error() of a kind value
Error(k) ==
    CASE k.type = "InvalidOperationException" ->
            "InvalidOperationException: " \o k.Message
      [] k.type = "ArgumentNullException" ->
            "ArgumentNullException: Parameter '" \o k.ParamName
                \o "' cannot be null. " \o k.Message
      [] k.type = "CustomA" -> "CustomException: " \o k.Message
      [] k.type = "CustomB" -> "CustomException: " \o k.Message

\* reflect.TypeOf(kind value)
TypeOf(k) == k.type

\* kind values the modelled tryBlocks hand to Throw
ThrownKinds == { ArgumentNullException("user", ""), CustomA("x"), CustomB("x") }

\* kind value the modelled tryBlocks hand to ThrowWithInner
WrappingKind == InvalidOperationException("init failed")

(***************************************************************************)
(* Stack capture.  `callers` is the call stack as runtime.Caller sees it   *)
(* from inside getStackTrace: callers[1] is runtime.Caller(0), i.e.        *)
(* getStackTrace itself, callers[2] its caller, and so on outwards.        *)
(***************************************************************************)
\* frames whose function name contains "runtime." or "panic"
RuntimeFrames == {"runtime.gopanic", "runtime.main", "runtime.goexit"}

\* user functions called (innermost first) between tryBlock and the throw site
UserFrames(depth) == [i \in 1..depth |-> "main.helper"]

\* frames from tryBlock outwards
OuterFrames ==
    << "main.main.func1", "goexceptions.Try.func1", "goexceptions.Try",
       "main.main", "runtime.main", "runtime.goexit" >>

\* call stack at getStackTrace() inside Throw / ThrowWithInner
ThrowStack(thrower, depth) ==
    << "goexceptions.getStackTrace", thrower >> \o UserFrames(depth) \o OuterFrames

\* call stack at getStackTrace() inside the deferred recover closure of Try
RecoverStack(depth) ==
    << "goexceptions.getStackTrace", "goexceptions.Try.func1.1", "runtime.gopanic" >>
        \o UserFrames(depth) \o OuterFrames

\* first and one-past-last argument of runtime.Caller in getStackTrace
FirstCaller == 3
LastCaller == 15

\* the loop of getStackTrace as it would be without its upper limit
RECURSIVE getStackTraceFrom_NoLimit(_, _, _)
getStackTraceFrom_NoLimit(callers, i, traces) ==
    IF i + 1 > Len(callers) THEN traces
    ELSE IF callers[i + 1] \in RuntimeFrames
         THEN getStackTraceFrom_NoLimit(callers, i + 1, traces)
    ELSE getStackTraceFrom_NoLimit(callers, i + 1, Append(traces, callers[i + 1]))

RECURSIVE getStackTraceFrom(_, _, _)
getStackTraceFrom(callers, i, traces) ==
    IF i >= LastCaller THEN traces
    ELSE IF i + 1 > Len(callers) THEN traces                      \* !ok: break
    ELSE IF callers[i + 1] \in RuntimeFrames
         THEN getStackTraceFrom(callers, i + 1, traces)           \* continue
    ELSE getStackTraceFrom(callers, i + 1, Append(traces, callers[i + 1]))

getStackTrace(callers) == getStackTraceFrom(callers, FirstCaller, << >>)

(***************************************************************************)
(* Exception: the wrapper.  Inner is a pointer: an index into `heap`, 0    *)
(* for nil.  Data is the (always empty) map made at construction.          *)
(***************************************************************************)
NilPtr == 0

NewException(kind, stackTrace, inner) ==
    [Type |-> kind, StackTrace |-> stackTrace, Data |-> << >>, Inner |-> inner]

\* the Exception value that Throw(exception) panics with
Throw(kind, depth) ==
    NewException(kind, getStackTrace(ThrowStack("goexceptions.Throw", depth)), NilPtr)

\* ThrowWithInner as it would be without its getStackTrace() call
ThrowWithInner_NoCapture(kind, inner, depth) ==
    NewException(kind, << >>, inner)

\* the Exception value that ThrowWithInner(exception, inner) panics with
ThrowWithInner(kind, inner, depth) ==
    NewException(kind, getStackTrace(ThrowStack("goexceptions.ThrowWithInner", depth)), inner)

(***************************************************************************)
(* Panic payloads.  dyn is the dynamic type class of the value handed to   *)
(* panic(): an Exception value, a kind value, a plain error               *)
(* (errors.New), a string or an int.                                       *)
(***************************************************************************)
NoKind == [type |-> "-", ParamName |-> "", Message |-> ""]

NoException == NewException(NoKind, << >>, NilPtr)

Payload(dyn, text, num, kind, ex) ==
    [dyn |-> dyn, text |-> text, num |-> num, kind |-> kind, ex |-> ex]

NoPayload == Payload("-", "", 0, NoKind, NoException)

\* native panics: panic("boom"), panic(errors.New("io fail")), panic(42)
NativePayloads ==
    { Payload("string", "boom", 0, NoKind, NoException),
      Payload("error", "io fail", 0, NoKind, NoException),
      Payload("int", "", 42, NoKind, NoException) }

\* panic(kind value) without going through Throw
BarePayloads == { Payload("kind", "", 0, CustomA("x"), NoException) }

\* does the payload's dynamic type implement ExceptionType / error ?
ImplementsExceptionType(dyn) == dyn \in {"Exception", "kind"}

ImplementsError(dyn) == dyn \in {"Exception", "kind", "error"}

\* decimal rendering of the modelled int payloads
Itoa(n) == CASE n = 0 -> "0" [] n = 7 -> "7" [] n = 42 -> "42"

\* fmt.Sprintf("%v", r) for a payload that is neither Exception, ExceptionType nor error
Sprint(p) == IF p.dyn = "int" THEN Itoa(p.num) ELSE p.text

\* e.Error() of a plain error payload
ErrorOf(p) == p.text

(***************************************************************************)
(* State                                                                   *)
(***************************************************************************)
VARIABLES
    typeCache,  \* map[reflect.Type]bool: a function whose DOMAIN is the key set
    heap,       \* the Exception values the caller can still reach; a pointer is an index
    tr,         \* the *TryResult the caller holds (nil before the first Try)
    last,       \* history: the library call just made, its arguments and its effects
    goroutines, \* goroutines that call the library in parallel: position and locals
    typeCacheMutex  \* sync.RWMutex: the goroutines holding it for reading, the writer

vars == << typeCache, heap, tr, last, goroutines, typeCacheMutex >>

\* the state of the parallel callers, which the single caller never touches
conc == << goroutines, typeCacheMutex >>


\* a *TryResult: nil, or a pointer to {exception, handled}
NilResult == [nil |-> TRUE, exception |-> NilPtr, handled |-> FALSE]

TryResult(exception) == [nil |-> FALSE, exception |-> exception, handled |-> FALSE]

\* HasException / GetException
HasException(r) == ~r.nil /\ r.exception # NilPtr

GetException(r) == IF r.nil THEN NilPtr ELSE r.exception

(***************************************************************************)
(* Type cache                                                              *)
(***************************************************************************)
\* declared type parameters T of Catch[T], On[T], Handler[T], FindInnerException[T]
\* in the calls of the single caller (it declares no handler for
\* ArgumentNullException, which it throws)
DeclaredTypes == {"InvalidOperationException", "CustomA", "CustomB"}

\* getTypeOf[T]()
getTypeOf(T) == T

\* typeCache[key] = value
CachePut(cache, key, value) ==
    [x \in DOMAIN cache \cup {key} |-> IF x = key THEN value ELSE cache[x]]

\* the pointer type *K
PointerTo(K) == "*" \o K

\* reflect: a value of type actualType can be assigned to a variable of type
\* T.  Every kind, and every pointer to a kind (the methods have value
\* receivers), implements the interface ExceptionType.
AssignableTo(actualType, T) == actualType = T \/ T = "ExceptionType"

\* isTypeMatch as it would be if it asked whether the actual type can be
\* assigned to the declared type
isTypeMatch_Assignable(cache, T, actualType) ==
    LET expectedType == getTypeOf(T)
        cacheKey == expectedType
    IN  IF cacheKey \in DOMAIN cache
        THEN [match |-> cache[cacheKey] /\ AssignableTo(actualType, expectedType),
              cache |-> cache]
        ELSE LET match == AssignableTo(actualType, expectedType)
             IN  [match |-> match, cache |-> CachePut(cache, cacheKey, match)]

\* isTypeMatch[T](actualType) run to completion by one goroutine:
\* the returned decision and the cache it leaves behind
isTypeMatch(cache, T, actualType) ==
    LET expectedType == getTypeOf(T)
        cacheKey == expectedType
    IN  IF cacheKey \in DOMAIN cache
        THEN [match |-> cache[cacheKey] /\ actualType = expectedType, cache |-> cache]
        ELSE LET match == (actualType = expectedType)
             IN  [match |-> match, cache |-> CachePut(cache, cacheKey, match)]

(***************************************************************************)
(* Handlers.  A handler value carries its declared type; whether the user  *)
(* callback returns or panics when it is invoked is the `panics` argument  *)
(* of the operation that invokes it.                                       *)
(***************************************************************************)
\* Handler[T](handler)
Handler(T) == [style |-> "typed", T |-> T]

\* HandlerAny(handler)
HandlerAny == [style |-> "any", T |-> "-"]

\* a cleanup action handed to Finally
Cleanup == [style |-> "cleanup", T |-> "-"]

TypedHandlers == { Handler(T) : T \in DeclaredTypes }

\* one invocation of a user handler: its position in the argument list, the
\* handler, the narrowed kind value (NoKind for a catch-all) and the Exception
Invocation(pos, hd, kind, ex) == [pos |-> pos, h |-> hd, kind |-> kind, ex |-> ex]

\* effect of a dispatch call: the cache, the handled flag, the invocations made
\* and whether the call returned or let a panic through
Effect(cache, handled, fired, outcome) ==
    [cache |-> cache, handled |-> handled, fired |-> fired, outcome |-> outcome]

(***************************************************************************)
(* Approach 1: Catch                                                       *)
(***************************************************************************)
\* Catch as it would be if matching went by the kind-name: the handler fires
\* when TypeName() of the exception's kind equals that of the declared type
\* and receives the kind converted to the declared struct type
Catch_ByTypeName(cache, r, h, hd, panics) ==
    IF r.nil \/ r.exception = NilPtr \/ r.handled
    THEN Effect(cache, r.handled, << >>, "returned")
    ELSE LET ex == h[r.exception]
             converted == [ex.Type EXCEPT !.type = hd.T]
         IN  IF TypeName(converted) = TypeName(ex.Type)
             THEN Effect(cache, ~panics,
                         << Invocation(1, hd, converted, ex) >>,
                         IF panics THEN "panicked" ELSE "returned")
             ELSE Effect(cache, r.handled, << >>, "returned")

\* Catch as it would be if it set handled before it called the handler
Catch_ClaimsBeforeHandler(cache, r, h, hd, panics) ==
    IF r.nil \/ r.exception = NilPtr \/ r.handled
    THEN Effect(cache, r.handled, << >>, "returned")
    ELSE LET ex == h[r.exception]
             actualType == TypeOf(ex.Type)
             m == isTypeMatch(cache, hd.T, actualType)
         IN  IF m.match
             THEN IF actualType # hd.T
                  THEN Effect(m.cache, r.handled, << >>, "panicked")
                  ELSE Effect(m.cache, TRUE, << Invocation(1, hd, ex.Type, ex) >>,
                              IF panics THEN "panicked" ELSE "returned")
             ELSE Effect(m.cache, r.handled, << >>, "returned")

\* Catch as it would be without the `tr.handled` test of its first line
Catch_NoHandledCheck(cache, r, h, hd, panics) ==
    IF r.nil \/ r.exception = NilPtr
    THEN Effect(cache, r.handled, << >>, "returned")
    ELSE LET ex == h[r.exception]
             m == isTypeMatch(cache, hd.T, TypeOf(ex.Type))
         IN  IF m.match
             THEN Effect(m.cache, r.handled \/ ~panics,
                         << Invocation(1, hd, ex.Type, ex) >>,
                         IF panics THEN "panicked" ELSE "returned")
             ELSE Effect(m.cache, r.handled, << >>, "returned")

Catch(cache, r, h, hd, panics) ==
    IF r.nil \/ r.exception = NilPtr \/ r.handled
    THEN Effect(cache, r.handled, << >>, "returned")
    ELSE LET ex == h[r.exception]
             actualType == TypeOf(ex.Type)
             m == isTypeMatch(cache, hd.T, actualType)
         IN  IF m.match
             THEN IF actualType # hd.T      \* tr.exception.Type.(T) fails
                  THEN Effect(m.cache, r.handled, << >>, "panicked")
                  ELSE IF panics
                  THEN Effect(m.cache, r.handled,
                              << Invocation(1, hd, ex.Type, ex) >>, "panicked")
                  ELSE Effect(m.cache, TRUE,
                              << Invocation(1, hd, ex.Type, ex) >>, "returned")
             ELSE Effect(m.cache, r.handled, << >>, "returned")

(***************************************************************************)
(* Approach 2: the builder                                                 *)
(***************************************************************************)
\* tr.When()
When(r) == [result |-> r]

\* On as it would be without the `cb.result.handled` test of its first line
On_NoHandledCheck(cache, cb, h, hd, panics) ==
    IF cb.result.nil \/ cb.result.exception = NilPtr
    THEN Effect(cache, cb.result.handled, << >>, "returned")
    ELSE LET ex == h[cb.result.exception]
             actualType == TypeOf(ex.Type)
             m == isTypeMatch(cache, hd.T, actualType)
         IN  IF m.match
             THEN IF actualType # hd.T      \* cb.result.exception.Type.(T) fails
                  THEN Effect(m.cache, cb.result.handled, << >>, "panicked")
                  ELSE IF panics
                  THEN Effect(m.cache, cb.result.handled,
                              << Invocation(1, hd, ex.Type, ex) >>, "panicked")
                  ELSE Effect(m.cache, TRUE,
                              << Invocation(1, hd, ex.Type, ex) >>, "returned")
             ELSE Effect(m.cache, cb.result.handled, << >>, "returned")

On(cache, cb, h, hd, panics) ==
    IF cb.result.nil \/ cb.result.exception = NilPtr \/ cb.result.handled
    THEN Effect(cache, cb.result.handled, << >>, "returned")
    ELSE LET ex == h[cb.result.exception]
             actualType == TypeOf(ex.Type)
             m == isTypeMatch(cache, hd.T, actualType)
         IN  IF m.match
             THEN IF actualType # hd.T      \* cb.result.exception.Type.(T) fails
                  THEN Effect(m.cache, cb.result.handled, << >>, "panicked")
                  ELSE IF panics
                  THEN Effect(m.cache, cb.result.handled,
                              << Invocation(1, hd, ex.Type, ex) >>, "panicked")
                  ELSE Effect(m.cache, TRUE,
                              << Invocation(1, hd, ex.Type, ex) >>, "returned")
             ELSE Effect(m.cache, cb.result.handled, << >>, "returned")

\* CatchBuilder.Any as it would be without the `!cb.result.handled` test
CatchBuilderAny_IgnoresHandled(cache, cb, h, hd, panics) ==
    IF ~cb.result.nil /\ cb.result.exception # NilPtr
    THEN LET ex == h[cb.result.exception]
         IN  IF panics
             THEN Effect(cache, cb.result.handled,
                         << Invocation(1, hd, NoKind, ex) >>, "panicked")
             ELSE Effect(cache, TRUE, << Invocation(1, hd, NoKind, ex) >>, "returned")
    ELSE Effect(cache, cb.result.handled, << >>, "returned")

\* CatchBuilder.Any as it would be if it claimed the result unconditionally
CatchBuilderAny_AlwaysClaims(cache, cb, h, hd, panics) ==
    IF ~cb.result.nil /\ cb.result.exception # NilPtr /\ ~cb.result.handled
    THEN LET ex == h[cb.result.exception]
         IN  IF panics
             THEN Effect(cache, cb.result.handled,
                         << Invocation(1, hd, NoKind, ex) >>, "panicked")
             ELSE Effect(cache, TRUE, << Invocation(1, hd, NoKind, ex) >>, "returned")
    ELSE Effect(cache, TRUE, << >>, "returned")

CatchBuilderAny(cache, cb, h, hd, panics) ==
    IF ~cb.result.nil /\ cb.result.exception # NilPtr /\ ~cb.result.handled
    THEN LET ex == h[cb.result.exception]
         IN  IF panics
             THEN Effect(cache, cb.result.handled,
                         << Invocation(1, hd, NoKind, ex) >>, "panicked")
             ELSE Effect(cache, TRUE, << Invocation(1, hd, NoKind, ex) >>, "returned")
    ELSE Effect(cache, cb.result.handled, << >>, "returned")

\* what a cleanup action that panics panics with
CleanupFault == Payload("string", "cleanup failed", 0, NoKind, NoException)

\* cleanup(): one run of the user's cleanup action, which returns or panics;
\* there is no recover between it and the caller of Finally
cleanup(panics) ==
    [ran |-> 1, outcome |-> IF panics THEN "panicked" ELSE "returned",
     thrown |-> IF panics THEN CleanupFault ELSE NoPayload]

\* CatchBuilder.Finally as it would be if it recovered a panic of cleanup
CatchBuilderFinally_RecoversCleanup(cb, panics) ==
    IF ~cb.result.nil
    THEN [ran |-> 1, outcome |-> "returned", thrown |-> NoPayload]
    ELSE [ran |-> 0, outcome |-> "returned", thrown |-> NoPayload]

\* number of times cleanup() is called, and how the call ends
CatchBuilderFinally(cb, panics) ==
    IF ~cb.result.nil
    THEN cleanup(panics)
    ELSE [ran |-> 0, outcome |-> "returned", thrown |-> NoPayload]

\* End as it would be if it dropped the exception nobody claimed
End_DropsException(cb) ==
    IF cb.result.nil \/ cb.result.handled THEN cb.result
    ELSE [cb.result EXCEPT !.exception = NilPtr]

End(cb) == cb.result

(***************************************************************************)
(* Approach 3: handler lists                                               *)
(***************************************************************************)
\* result of one ExceptionHandler.Handle(ex): the cache, the returned bool,
\* whether the user handler was called and with which kind, and how it ended
Attempt(cache, ret, called, kind, outcome) ==
    [cache |-> cache, ret |-> ret, called |-> called, kind |-> kind, outcome |-> outcome]

\* (*TypedHandler[T]).Handle
TypedHandlerHandle(cache, hd, ex, panics) ==
    LET actualType == TypeOf(ex.Type)
        m == isTypeMatch(cache, hd.T, actualType)
    IN  IF m.match
        THEN IF actualType # hd.T          \* ex.Type.(T) fails
             THEN Attempt(m.cache, FALSE, FALSE, NoKind, "panicked")
             ELSE IF panics
             THEN Attempt(m.cache, FALSE, TRUE, ex.Type, "panicked")
             ELSE Attempt(m.cache, TRUE, TRUE, ex.Type, "returned")
        ELSE Attempt(m.cache, FALSE, FALSE, NoKind, "returned")

\* (*GenericHandler).Handle
GenericHandlerHandle(cache, hd, ex, panics) ==
    IF panics
    THEN Attempt(cache, FALSE, TRUE, NoKind, "panicked")
    ELSE Attempt(cache, TRUE, TRUE, NoKind, "returned")

\* dynamic dispatch of handler.Handle(ex)
HandlerHandle(cache, hd, ex, panics) ==
    IF hd.style = "typed" THEN TypedHandlerHandle(cache, hd, ex, panics)
    ELSE GenericHandlerHandle(cache, hd, ex, panics)

\* the range loop of TryResult.Handle, from entry i on
RECURSIVE HandleLoop(_, _, _, _, _)
HandleLoop(cache, handlers, i, ex, panics) ==
    IF i > Len(handlers) THEN Effect(cache, FALSE, << >>, "returned")
    ELSE LET a == HandlerHandle(cache, handlers[i], ex, panics)
             inv == IF a.called THEN << Invocation(i, handlers[i], a.kind, ex) >> ELSE << >>
         IN  IF a.outcome = "panicked" THEN Effect(a.cache, FALSE, inv, "panicked")
             ELSE IF a.ret THEN Effect(a.cache, TRUE, inv, "returned")      \* break
             ELSE LET rest == HandleLoop(a.cache, handlers, i + 1, ex, panics)
                  IN  Effect(rest.cache, rest.handled, inv \o rest.fired, rest.outcome)

\* Handle as it would be if it claimed a result that carries no exception
Handle_ClaimsWithoutException(cache, r, h, handlers, panics) ==
    IF r.nil \/ r.handled
    THEN Effect(cache, r.handled, << >>, "returned")
    ELSE IF r.exception = NilPtr THEN Effect(cache, TRUE, << >>, "returned")
    ELSE HandleLoop(cache, handlers, 1, h[r.exception], panics)

\* (*TryResult).Handle
Handle(cache, r, h, handlers, panics) ==
    IF r.nil \/ r.exception = NilPtr \/ r.handled
    THEN Effect(cache, r.handled, << >>, "returned")
    ELSE HandleLoop(cache, handlers, 1, h[r.exception], panics)

\* Finally as it would be if it ran cleanup only once the exception is dealt with
Finally_SkipsUnclaimed(r, panics) ==
    IF ~r.nil /\ (r.exception = NilPtr \/ r.handled)
    THEN cleanup(panics)
    ELSE [ran |-> 0, outcome |-> "returned", thrown |-> NoPayload]

\* (*TryResult).Finally: number of times cleanup() is called, and how the call ends
Finally(r, panics) ==
    IF ~r.nil
    THEN cleanup(panics)
    ELSE [ran |-> 0, outcome |-> "returned", thrown |-> NoPayload]

\* TryResult.Any as it would be without the `!tr.handled` test
TryResultAny_NoHandledCheck(cache, r, h, hd, panics) ==
    IF ~r.nil /\ r.exception # NilPtr
    THEN LET ex == h[r.exception]
         IN  IF panics
             THEN Effect(cache, r.handled, << Invocation(1, hd, NoKind, ex) >>, "panicked")
             ELSE Effect(cache, TRUE, << Invocation(1, hd, NoKind, ex) >>, "returned")
    ELSE Effect(cache, r.handled, << >>, "returned")

\* (*TryResult).Any
TryResultAny(cache, r, h, hd, panics) ==
    IF ~r.nil /\ r.exception # NilPtr /\ ~r.handled
    THEN LET ex == h[r.exception]
         IN  IF panics
             THEN Effect(cache, r.handled, << Invocation(1, hd, NoKind, ex) >>, "panicked")
             ELSE Effect(cache, TRUE, << Invocation(1, hd, NoKind, ex) >>, "returned")
    ELSE Effect(cache, r.handled, << >>, "returned")

\* the TryResult after a dispatch call set (or left) its handled flag
SetHandled(r, handled) == IF r.nil THEN r ELSE [r EXCEPT !.handled = handled]

(***************************************************************************)
(* The three styles applied to one ordered list of typed handlers          *)
(***************************************************************************)
\* the invocations of one call, numbered by the position i of the call
At(fired, i) == [n \in DOMAIN fired |-> [fired[n] EXCEPT !.pos = i]]

\* tr.Catch[K1](h1).Catch[K2](h2)... from call i on, `fired` being the
\* invocations made so far; a panic of a handler ends the expression
RECURSIVE CatchEach(_, _, _, _, _, _, _)
CatchEach(cache, r, h, hs, i, fired, panics) ==
    IF i > Len(hs) THEN Effect(cache, r.handled, fired, "returned")
    ELSE LET e == Catch(cache, r, h, hs[i], panics)
         IN  IF e.outcome = "panicked"
             THEN Effect(e.cache, e.handled, fired \o At(e.fired, i), "panicked")
             ELSE CatchEach(e.cache, SetHandled(r, e.handled), h, hs, i + 1,
                            fired \o At(e.fired, i), panics)

\* tr.When().On[K1](h1).On[K2](h2)...End() from call i on
RECURSIVE OnEach(_, _, _, _, _, _, _)
OnEach(cache, cb, h, hs, i, fired, panics) ==
    IF i > Len(hs) THEN Effect(cache, End(cb).handled, fired, "returned")
    ELSE LET e == On(cache, cb, h, hs[i], panics)
         IN  IF e.outcome = "panicked"
             THEN Effect(e.cache, e.handled, fired \o At(e.fired, i), "panicked")
             ELSE OnEach(e.cache, When(SetHandled(cb.result, e.handled)), h, hs, i + 1,
                         fired \o At(e.fired, i), panics)

(***************************************************************************)
(* Chain helpers.  The receiver e is a pointer into the heap h.            *)
(***************************************************************************)
\* (*Exception).HasInnerException
HasInnerException(h, e) == h[e].Inner # NilPtr

\* (*Exception).GetInnerException
GetInnerException(h, e) == h[e].Inner

\* the separator GetFullMessage puts before the message of an inner exception
Arrow == " --> "

\* GetFullMessage as it would be if it put the inner message first
GetFullMessage_InnerFirst(h, e) ==
    IF h[e].Inner # NilPtr
    THEN Error(h[h[e].Inner].Type) \o Arrow \o Error(h[e].Type)
    ELSE Error(h[e].Type)

\* (*Exception).GetFullMessage
RECURSIVE GetFullMessage(_, _)
GetFullMessage(h, e) ==
    LET message == Error(h[e].Type)
    IN  IF h[e].Inner # NilPtr
        THEN message \o Arrow \o GetFullMessage(h, h[e].Inner)
        ELSE message

\* the loop of GetAllExceptions: `current` and the slice built so far
RECURSIVE GetAllExceptionsFrom(_, _, _)
GetAllExceptionsFrom(h, current, exceptions) ==
    IF current = NilPtr THEN exceptions
    ELSE GetAllExceptionsFrom(h, h[current].Inner, Append(exceptions, current))

\* GetAllExceptions as it would be if it collected the inner exceptions only
GetAllExceptions_SkipsReceiver(h, e) ==
    IF e = NilPtr THEN << >> ELSE GetAllExceptionsFrom(h, h[e].Inner, << >>)

\* (*Exception).GetAllExceptions
GetAllExceptions(h, e) == GetAllExceptionsFrom(h, e, << >>)

\* FindInnerException as it would be if it returned the innermost match
FindInnerException_Innermost(cache, T, current, h) ==
    LET all == GetAllExceptions(h, current)
        hits == { i \in DOMAIN all : TypeOf(h[all[i]].Type) = T }
    IN  [found |-> IF hits = {} THEN NoKind
                   ELSE h[all[CHOOSE i \in hits : \A j \in hits : j <= i]].Type,
         cache |-> cache]

\* FindInnerException[T](e): the kind value found (NoKind for nil) and the cache
RECURSIVE FindInnerException(_, _, _, _)
FindInnerException(cache, T, current, h) ==
    IF current = NilPtr THEN [found |-> NoKind, cache |-> cache]
    ELSE LET m == isTypeMatch(cache, T, TypeOf(h[current].Type))
         IN  IF m.match /\ TypeOf(h[current].Type) = T     \* typed, ok := current.Type.(T)
             THEN [found |-> h[current].Type, cache |-> m.cache]
             ELSE FindInnerException(m.cache, T, h[current].Inner, h)

(***************************************************************************)
(* Guard helpers: ThrowIf and ThrowIfNil.  A value handed to ThrowIfNil is *)
(* an `any`: the nil interface, or a value with a reflect.Kind that is     *)
(* nil or not.                                                             *)
(***************************************************************************)
Value(untypedNil, Kind, IsNil) == [untypedNil |-> untypedNil, Kind |-> Kind, IsNil |-> IsNil]

\* no value: the block does not call ThrowIfNil
NoValue == Value(FALSE, "-", FALSE)

\* the nil interface: `value == nil`
NilInterface == Value(TRUE, "Invalid", TRUE)

\* the values the modelled tryBlocks hand to ThrowIfNil: nil, a nil and a
\* non-nil pointer, map, slice, channel and function, a string, a number and
\* a struct
Values ==
    { NilInterface }
    \cup { Value(FALSE, K, n) : K \in {"Ptr", "Map", "Slice", "Chan", "Func"}, n \in BOOLEAN }
    \cup { Value(FALSE, K, FALSE) : K \in {"String", "Int", "Struct"} }

\* the parameter names the modelled tryBlocks hand to ThrowIfNil
ParamNames == {"user", "id"}

\* the Exception that Throw panics with when it is reached through `via`,
\* the library functions between it and tryBlock (innermost first)
ThrowVia(kind, via) ==
    NewException(kind,
                 getStackTrace(<< "goexceptions.getStackTrace", "goexceptions.Throw" >>
                                   \o via \o OuterFrames),
                 NilPtr)

\* ThrowArgumentNull(paramName, message) called by `via`
ThrowArgumentNull(paramName, message, via) ==
    Payload("Exception", "", 0, NoKind,
            ThrowVia(ArgumentNullException(paramName, message),
                     << "goexceptions.ThrowArgumentNull" >> \o via))

\* ThrowIfNil as it would be with the `value == nil` test alone
ThrowIfNil_OnlyNilInterface(paramName, value) ==
    IF value.untypedNil
    THEN ThrowArgumentNull(paramName, "", << "goexceptions.ThrowIfNil" >>)
    ELSE NoPayload

\* ThrowIfNil(paramName, value): what it panics with, NoPayload when it returns
ThrowIfNil(paramName, value) ==
    IF value.untypedNil
    THEN ThrowArgumentNull(paramName, "", << "goexceptions.ThrowIfNil" >>)
    ELSE IF value.Kind \in {"Ptr", "Interface", "Map", "Slice", "Chan", "Func"}
         THEN IF value.IsNil
              THEN ThrowArgumentNull(paramName, "", << "goexceptions.ThrowIfNil" >>)
              ELSE NoPayload
    ELSE NoPayload

\* ThrowIf as it would be if it threw whatever the condition
ThrowIf_Always(condition, exception) ==
    Payload("Exception", "", 0, NoKind, ThrowVia(exception, << "goexceptions.ThrowIf" >>))

\* ThrowIf(condition, exception): what it panics with, NoPayload when it returns
ThrowIf(condition, exception) ==
    IF condition
    THEN Payload("Exception", "", 0, NoKind, ThrowVia(exception, << "goexceptions.ThrowIf" >>))
    ELSE NoPayload

(***************************************************************************)
(* tryBlocks.  A block returns, throws, panics natively, calls Rethrow()   *)
(* on the result the caller holds, or runs a Try of its own (Nested).      *)
(***************************************************************************)
Block(do, kind, inner, payload, depth) ==
    [do |-> do, kind |-> kind, inner |-> inner, payload |-> payload, depth |-> depth,
     innerDo |-> "-", after |-> "-",
     paramName |-> "", value |-> NoValue, condition |-> FALSE, script |-> << >>]

\* func() { ThrowIfNil(paramName, value); reached = true }
Guarded(paramName, value) ==
    [Block("ThrowIfNil", NoKind, NilPtr, NoPayload, 0)
        EXCEPT !.paramName = paramName, !.value = value]

\* func() { ThrowIf(condition, kind); reached = true }
Conditional(condition, kind) ==
    [Block("ThrowIf", kind, NilPtr, NoPayload, 0) EXCEPT !.condition = condition]

\* the statements of a tryBlock that is a sequence of statements: a side
\* effect (`fileProcessed = true`) or a call of a throw function
Statements ==
    { "mark", "Throw", "ThrowWithInner", "ThrowArgumentNull", "ThrowInvalidOperation" }

\* what a throw statement panics with
Raise(st) ==
    CASE st = "Throw" -> Payload("Exception", "", 0, NoKind, Throw(CustomA("x"), 0))
      [] st = "ThrowWithInner" ->
            Payload("Exception", "", 0, NoKind, ThrowWithInner(WrappingKind, NilPtr, 0))
      [] st = "ThrowArgumentNull" -> ThrowArgumentNull("user", "", << >>)
      [] st = "ThrowInvalidOperation" ->
            Payload("Exception", "", 0, NoKind,
                    ThrowVia(InvalidOperationException("failed"),
                             << "goexceptions.ThrowInvalidOperation" >>))

\* one run of a tryBlock's statements: what it panics with, the positions of
\* the side effects made and the number of statements begun
Run(payload, marks, steps) == [payload |-> payload, marks |-> marks, steps |-> steps]

\* the statements as they would run if a throw function returned to its
\* caller (the first panic value is kept)
RECURSIVE RunScript_ThrowReturns(_, _, _)
RunScript_ThrowReturns(stmts, i, marks) ==
    IF i > Len(stmts) THEN Run(NoPayload, marks, Len(stmts))
    ELSE IF stmts[i] = "mark" THEN RunScript_ThrowReturns(stmts, i + 1, Append(marks, i))
    ELSE LET rest == RunScript_ThrowReturns(stmts, i + 1, marks)
         IN  Run(Raise(stmts[i]), rest.marks, rest.steps)

\* the statements from position i on: a throw function panics, which ends
\* the tryBlock at that statement
RECURSIVE RunScript(_, _, _)
RunScript(stmts, i, marks) ==
    IF i > Len(stmts) THEN Run(NoPayload, marks, Len(stmts))
    ELSE IF stmts[i] = "mark" THEN RunScript(stmts, i + 1, Append(marks, i))
    ELSE Run(Raise(stmts[i]), marks, i)

\* func() { stmts[1]; stmts[2]; ... }
Script(stmts) == [Block("Script", NoKind, NilPtr, NoPayload, 0) EXCEPT !.script = stmts]

Scripts ==
    UNION { [1..n -> Statements] : n \in 1..MaxScript }

GuardBlocks ==
    { Guarded(n, v) : n \in ParamNames, v \in Values }
    \cup { Conditional(c, CustomA("x")) : c \in BOOLEAN }

\* func() { inner := Try(innerBlock); <after> }: innerBlock returns, throws
\* `kind` or panics with `payload`; afterwards the outer block returns, calls
\* inner.Any with a handler that throws, or calls inner.Rethrow()
Nested(innerDo, kind, payload, after) ==
    [Block("Try", kind, NilPtr, payload, 0) EXCEPT !.innerDo = innerDo, !.after = after]

\* the tryBlock of the inner Try of a nested block
InnerBlock(b) == Block(b.innerDo, b.kind, NilPtr, b.payload, 0)

InnerBlocks ==
    { Nested("return", NoKind, NoPayload, a) : a \in {"return", "Any throws", "Rethrow"} }
    \cup { Nested("Throw", CustomA("x"), NoPayload, a) :
              a \in {"return", "Any throws", "Rethrow"} }
    \cup { Nested("panic", NoKind, Payload("string", "boom", 0, NoKind, NoException), a) :
              a \in {"return", "Any throws", "Rethrow"} }

NoBlock == Block("-", NoKind, NilPtr, NoPayload, 0)

\* number of exceptions in the chain that starts at pointer p
RECURSIVE ChainLen(_, _)
ChainLen(h, p) == IF p = NilPtr THEN 0 ELSE 1 + ChainLen(h, h[p].Inner)

Blocks(h) ==
    { Block("return", NoKind, NilPtr, NoPayload, 0) }
    \cup { Block("Throw", k, NilPtr, NoPayload, 0) : k \in ThrownKinds }
    \cup { Block("ThrowWithInner", WrappingKind, i, NoPayload, 0) :
             i \in { j \in 0..Len(h) : ChainLen(h, j) < MaxChain } }
    \cup { Block("panic", NoKind, NilPtr, p, 0) : p \in NativePayloads \cup BarePayloads }
    \cup { Block("Rethrow", NoKind, NilPtr, NoPayload, 0) }
    \cup InnerBlocks
    \cup GuardBlocks

\* Rethrow as it would be without the `!tr.handled` test
Rethrow_IgnoresHandled(r, h) ==
    IF ~r.nil /\ r.exception # NilPtr
    THEN Payload("Exception", "", 0, NoKind, h[r.exception])
    ELSE NoPayload

\* Rethrow: the payload it panics with, NoPayload when it is a no-op
Rethrow(r, h) ==
    IF ~r.nil /\ r.exception # NilPtr /\ ~r.handled
    THEN Payload("Exception", "", 0, NoKind, h[r.exception])
    ELSE NoPayload

\* the type switch as it would be without `case Exception`: an Exception
\* falls to `case error` and is wrapped again
Recovered_RewrapsException(r, depth) ==
    IF r.dyn = "Exception"
    THEN NewException(InvalidOperationException(Error(r.ex.Type)),
                      getStackTrace(RecoverStack(depth)), NilPtr)
    ELSE IF ImplementsExceptionType(r.dyn)
         THEN NewException(r.kind, getStackTrace(RecoverStack(depth)), NilPtr)
    ELSE IF ImplementsError(r.dyn)
         THEN NewException(InvalidOperationException(ErrorOf(r)),
                           getStackTrace(RecoverStack(depth)), NilPtr)
    ELSE NewException(InvalidOperationException(Sprint(r)),
                      getStackTrace(RecoverStack(depth)), NilPtr)

\* the type switch as it would be without `case ExceptionType`: a kind value
\* falls to `case error`
Recovered_KindAsError(r, depth) ==
    IF r.dyn = "Exception" THEN r.ex
    ELSE IF r.dyn = "kind"
         THEN NewException(InvalidOperationException(Error(r.kind)),
                           getStackTrace(RecoverStack(depth)), NilPtr)
    ELSE IF ImplementsError(r.dyn)
         THEN NewException(InvalidOperationException(ErrorOf(r)),
                           getStackTrace(RecoverStack(depth)), NilPtr)
    ELSE NewException(InvalidOperationException(Sprint(r)),
                      getStackTrace(RecoverStack(depth)), NilPtr)

\* the type switch of the deferred closure of Try on the recovered value r
Recovered(r, depth) ==
    IF r.dyn = "Exception" THEN r.ex
    ELSE IF ImplementsExceptionType(r.dyn)
         THEN NewException(r.kind, getStackTrace(RecoverStack(depth)), NilPtr)
    ELSE IF ImplementsError(r.dyn)
         THEN NewException(InvalidOperationException(ErrorOf(r)),
                           getStackTrace(RecoverStack(depth)), NilPtr)
    ELSE NewException(InvalidOperationException(Sprint(r)),
                      getStackTrace(RecoverStack(depth)), NilPtr)

\* what a tryBlock that does not nest panics with
RunPlain(b, r, h) ==
    CASE b.do = "return"         -> NoPayload
      [] b.do = "Throw"          ->
            Payload("Exception", "", 0, NoKind, Throw(b.kind, b.depth))
      [] b.do = "ThrowWithInner" ->
            Payload("Exception", "", 0, NoKind, ThrowWithInner(b.kind, b.inner, b.depth))
      [] b.do = "panic"          -> b.payload
      [] b.do = "Rethrow"        -> Rethrow(r, h)
      [] b.do = "ThrowIfNil"     -> ThrowIfNil(b.paramName, b.value)
      [] b.do = "ThrowIf"        -> ThrowIf(b.condition, b.kind)
      [] b.do = "Script"         -> RunScript(b.script, 1, << >>).payload

\* the recover closure of Try: what `exception` is set to for panic value p
\* (has is FALSE when nothing was recovered)
Recover(p, depth) ==
    IF p # NoPayload
    THEN [escaped |-> FALSE, has |-> TRUE, ex |-> Recovered(p, depth)]
    ELSE [escaped |-> FALSE, has |-> FALSE, ex |-> NoException]

\* frames of an inner tryBlock and of the Try that runs it
NestedFrames == << "main.main.func1.1", "goexceptions.Try.func1", "goexceptions.Try" >>

\* frames of a handler of the inner result and of the Any that invokes it
HandlerFrames == << "main.main.func1.2", "goexceptions.(*TryResult).Any" >>

\* the inner Try of a nested block: as Try, with the stack as it is one Try
\* further in
InnerTry(b) ==
    LET t == Recover(RunPlain(InnerBlock(b), NilResult, << >>), 0)
        callers == IF b.innerDo = "Throw"
                   THEN << "goexceptions.getStackTrace", "goexceptions.Throw" >>
                   ELSE << "goexceptions.getStackTrace", "goexceptions.Try.func1.1",
                           "runtime.gopanic" >>
    IN  IF t.has
        THEN [t EXCEPT !.ex.StackTrace = getStackTrace(callers \o NestedFrames \o OuterFrames)]
        ELSE t

\* the *TryResult the inner Try returns, and the one-cell heap it points into
InnerResult(b) == TryResult(IF InnerTry(b).has THEN 1 ELSE NilPtr)

InnerHeap(b) == IF InnerTry(b).has THEN << InnerTry(b).ex >> ELSE << >>

\* what the handler given to inner.Any panics with: Throw(WrappingKind)
HandlerThrow ==
    [Throw(WrappingKind, 0) EXCEPT !.StackTrace =
        getStackTrace(<< "goexceptions.getStackTrace", "goexceptions.Throw" >>
                          \o HandlerFrames \o OuterFrames)]

\* a nested block as it would be if the inner Try let the panic of its
\* tryBlock through
RunNested_InnerEscapes(b) ==
    RunPlain(InnerBlock(b), NilResult, << >>)

\* what a nested block panics with: the inner Try recovers whatever its
\* tryBlock raises, and only what the rest of the outer block raises is left
RunNested(b) ==
    CASE b.after = "return"     -> NoPayload
      [] b.after = "Any throws" ->
            IF TryResultAny(<< >>, InnerResult(b), InnerHeap(b), HandlerAny, TRUE).fired
                    # << >>
            THEN Payload("Exception", "", 0, NoKind, HandlerThrow)
            ELSE NoPayload
      [] b.after = "Rethrow"    -> Rethrow(InnerResult(b), InnerHeap(b))

\* what tryBlock() panics with; NoPayload when it returns normally
RunBlock(b, r, h) ==
    IF b.do = "Try" THEN RunNested(b) ELSE RunPlain(b, r, h)

\* Try as it would be without the default case of its type switch: a payload
\* that is neither Exception, ExceptionType nor error leaves `exception` nil
Try_NoDefaultCase(b, r, h) ==
    LET p == RunBlock(b, r, h) IN
    IF p # NoPayload /\ ImplementsError(p.dyn)
    THEN [escaped |-> FALSE, has |-> TRUE, ex |-> Recovered(p, b.depth)]
    ELSE [escaped |-> FALSE, has |-> FALSE, ex |-> NoException]

\* Try(tryBlock): escaped is TRUE when a panic of tryBlock reaches the caller,
\* has tells whether `exception` was set, ex is the value it points to
Try(b, r, h) == Recover(RunBlock(b, r, h), b.depth)

(***************************************************************************)
(* The caller: one library call per step                                   *)
(***************************************************************************)
\* history record of a call: its name, its handler / cleanup arguments, the
\* tryBlock (for Try), the TryResult before the call, the handler invocations
\* it made, the number of cleanup runs, how it ended, and the kind value it
\* returned (FindInnerException).  Three more fields are filled in by the
\* calls they concern: the panic value that reached the caller (thrown), the
\* *Exception argument of a chain helper (arg), whether a user callback
\* invoked by the call panicked (faulted), and the TryResult and exception of
\* the inner Try of a nested tryBlock (nested, nestedEx), and what the
\* chain helpers returned: a bool (flag), a *Exception (ptr), a string (text)
\* or a []*Exception (all)
Last(op, hs, block, pre, fired, ran, outcome, ret) ==
    [op |-> op, hs |-> hs, block |-> block, pre |-> pre, fired |-> fired,
     ran |-> ran, outcome |-> outcome, ret |-> ret,
     thrown |-> NoPayload, arg |-> NilPtr, faulted |-> FALSE,
     nested |-> NilResult, nestedEx |-> NoException,
     flag |-> FALSE, ptr |-> NilPtr, text |-> "", all |-> << >>,
     marks |-> << >>, steps |-> 0]

\* argument lists of Handle(...)
HandlerLists ==
    UNION { [1..n -> TypedHandlers \cup {HandlerAny}] : n \in 0..MaxHandlers }

\* sync.RWMutex: zero value, nobody holds it
Unlocked == [readers |-> {}, writer |-> 0]

\* no call to observe: the caller is about to issue its next call
NoCall == Last("-", << >>, NoBlock, NilResult, << >>, 0, "returned", NoKind)

Ready == last = NoCall

Init ==
    /\ typeCache = << >>
    /\ heap = << >>
    /\ tr = NilResult
    /\ last = NoCall
    /\ goroutines = << >>
    /\ typeCacheMutex = Unlocked

\* the indexes of the cells reachable from pointer p
RECURSIVE Reachable(_, _)
Reachable(h, p) == IF p = NilPtr THEN {} ELSE {p} \cup Reachable(h, h[p].Inner)

\* new index of cell p once the cells outside `keep` are dropped
Renumber(keep, p) == IF p = NilPtr THEN NilPtr ELSE Cardinality({ q \in keep : q <= p })

\* the heap restricted to the cells reachable from pointer p: the caller drops
\* its previous TryResult when it assigns the new one
Collect(h, p) ==
    LET keep == Reachable(h, p)
        old(i) == CHOOSE q \in keep : Renumber(keep, q) = i
    IN  [i \in 1..Cardinality(keep) |->
            [h[old(i)] EXCEPT !.Inner = Renumber(keep, h[old(i)].Inner)]]

\* `reached = true`, the statement after the guard of a guarded tryBlock,
\* executes when the guard returns: Try recovered nothing
Reached(b, t) == b.do \in {"ThrowIfNil", "ThrowIf"} /\ ~t.has

\* Try as it would be if storing an exception also linked its inner
\* exception back to it
Alloc_BackLinks(h, e) ==
    Append([i \in DOMAIN h |->
               IF i = e.Inner THEN [h[i] EXCEPT !.Inner = Len(h) + 1] ELSE h[i]], e)

\* exception = &e: the Exception value gets a place of its own
Alloc(h, e) == Append(h, e)

\* tr = Try(tryBlock)
DoTry ==
    \E b \in Blocks(heap) :
        LET t == Try(b, tr, heap)
            grown == Alloc(heap, t.ex)
        IN  /\ Ready
            /\ heap' = IF t.escaped THEN heap
                       ELSE IF t.has THEN Collect(grown, Len(grown))
                       ELSE << >>
            /\ tr' = IF t.escaped THEN tr
                     ELSE TryResult(IF t.has THEN Len(heap') ELSE NilPtr)
            /\ last' = [Last("Try", << >>, b, tr, << >>, 0,
                             IF t.escaped THEN "panicked" ELSE "returned", NoKind)
                            EXCEPT !.flag = Reached(b, t),
                                   !.nested = IF b.do = "Try" THEN InnerResult(b) ELSE @,
                                   !.nestedEx = IF b.do = "Try" THEN InnerTry(b).ex ELSE @]
            /\ UNCHANGED typeCache
            /\ UNCHANGED conc

\* what a user handler that panics panics with
HandlerFault == Payload("string", "handler failed", 0, NoKind, NoException)

\* the runtime error of a failed type assertion x.(T)
TypeAssertionError == Payload("error", "interface conversion", 0, NoKind, NoException)

\* a dispatch call as it would be if a handler's invocation marked the
\* stored exception by clearing its StackTrace
Dispatch_ClearsStackTrace(op, hs, quiet, eff) ==
    /\ Ready
    /\ eff = quiet \/ quiet.fired # << >>
    /\ typeCache' = eff.cache
    /\ tr' = SetHandled(tr, eff.handled)
    /\ last' = [Last(op, hs, NoBlock, tr, eff.fired, 0, eff.outcome, NoKind)
                    EXCEPT !.faulted = (eff.outcome = "panicked" /\ eff.fired # << >>),
                           !.thrown = IF eff.outcome = "returned" THEN NoPayload
                                      ELSE IF eff.fired # << >> THEN HandlerFault
                                      ELSE TypeAssertionError]
    /\ heap' = IF eff.fired # << >>
               THEN [heap EXCEPT ![tr.exception].StackTrace = << >>]
               ELSE heap
    /\ UNCHANGED conc

\* apply the effect of a dispatch call.  A call that invokes a user handler
\* has two outcomes, one for a handler that returns and one for a handler
\* that panics; `quiet` is the effect with a returning handler.
Dispatch(op, hs, quiet, eff) ==
    /\ Ready
    /\ eff = quiet \/ quiet.fired # << >>
    /\ typeCache' = eff.cache
    /\ tr' = SetHandled(tr, eff.handled)
    /\ last' = [Last(op, hs, NoBlock, tr, eff.fired, 0, eff.outcome, NoKind)
                    EXCEPT !.faulted = (eff.outcome = "panicked" /\ eff.fired # << >>),
                           !.thrown = IF eff.outcome = "returned" THEN NoPayload
                                      ELSE IF eff.fired # << >> THEN HandlerFault
                                      ELSE TypeAssertionError]
    /\ UNCHANGED heap
    /\ UNCHANGED conc

DoCatch ==
    \E hd \in TypedHandlers, panics \in BOOLEAN :
        Dispatch("Catch", << hd >>, Catch(typeCache, tr, heap, hd, FALSE),
                 Catch(typeCache, tr, heap, hd, panics))

DoOn ==
    \E hd \in TypedHandlers, panics \in BOOLEAN :
        Dispatch("On", << hd >>, On(typeCache, When(tr), heap, hd, FALSE),
                 On(typeCache, When(tr), heap, hd, panics))

DoCatchBuilderAny ==
    \E panics \in BOOLEAN :
        Dispatch("CatchBuilder.Any", << HandlerAny >>,
                 CatchBuilderAny(typeCache, When(tr), heap, HandlerAny, FALSE),
                 CatchBuilderAny(typeCache, When(tr), heap, HandlerAny, panics))

DoHandle ==
    \E hs \in HandlerLists, panics \in BOOLEAN :
        Dispatch("Handle", hs, Handle(typeCache, tr, heap, hs, FALSE),
                 Handle(typeCache, tr, heap, hs, panics))

DoAny ==
    \E panics \in BOOLEAN :
        Dispatch("Any", << HandlerAny >>, TryResultAny(typeCache, tr, heap, HandlerAny, FALSE),
                 TryResultAny(typeCache, tr, heap, HandlerAny, panics))

DoFinally ==
    \E panics \in BOOLEAN :
        LET f == Finally(tr, panics)
        IN  /\ Ready
            /\ last' = [Last("Finally", << Cleanup >>, NoBlock, tr, << >>, f.ran,
                             f.outcome, NoKind)
                            EXCEPT !.thrown = f.thrown, !.faulted = (f.ran = 1 /\ panics)]
            /\ UNCHANGED << typeCache, heap, tr >>
            /\ UNCHANGED conc

DoCatchBuilderFinally ==
    \E panics \in BOOLEAN :
        LET f == CatchBuilderFinally(When(tr), panics)
        IN  /\ Ready
            /\ last' = [Last("CatchBuilder.Finally", << Cleanup >>, NoBlock, tr, << >>,
                             f.ran, f.outcome, NoKind)
                            EXCEPT !.thrown = f.thrown, !.faulted = (f.ran = 1 /\ panics)]
            /\ UNCHANGED << typeCache, heap, tr >>
            /\ UNCHANGED conc

DoEnd ==
    /\ Ready
    /\ tr' = End(When(tr))
    /\ last' = Last("End", << >>, NoBlock, tr, << >>, 0, "returned", NoKind)
    /\ UNCHANGED << typeCache, heap >>
    /\ UNCHANGED conc

\* tr.Rethrow() called outside any Try: the panic reaches the caller
DoRethrow ==
    LET p == Rethrow(tr, heap)
    IN  /\ Ready
        /\ last' = [Last("Rethrow", << >>, NoBlock, tr, << >>, 0,
                         IF p # NoPayload THEN "panicked" ELSE "returned", NoKind)
                        EXCEPT !.thrown = p]
        /\ UNCHANGED << typeCache, heap, tr >>
        /\ UNCHANGED conc

DoFindInnerException ==
    \E T \in DeclaredTypes, e \in 0..Len(heap) :
        LET f == FindInnerException(typeCache, T, e, heap)
        IN  /\ Ready
            /\ typeCache' = f.cache
            /\ last' = [Last("FindInnerException", << Handler(T) >>, NoBlock, tr,
                             << >>, 0, "returned", f.found)
                            EXCEPT !.arg = e]
            /\ UNCHANGED << heap, tr >>
            /\ UNCHANGED conc

\* the history record of a call of a chain helper on the exception at e
Read(op, e) == [Last(op, << >>, NoBlock, tr, << >>, 0, "returned", NoKind) EXCEPT !.arg = e]

DoHasInnerException ==
    \E e \in 1..Len(heap) :
        /\ Ready
        /\ last' = [Read("HasInnerException", e) EXCEPT !.flag = HasInnerException(heap, e)]
        /\ UNCHANGED << typeCache, heap, tr >>
        /\ UNCHANGED conc

DoGetInnerException ==
    \E e \in 1..Len(heap) :
        /\ Ready
        /\ last' = [Read("GetInnerException", e) EXCEPT !.ptr = GetInnerException(heap, e)]
        /\ UNCHANGED << typeCache, heap, tr >>
        /\ UNCHANGED conc

DoGetFullMessage ==
    \E e \in 1..Len(heap) :
        /\ Ready
        /\ last' = [Read("GetFullMessage", e) EXCEPT !.text = GetFullMessage(heap, e)]
        /\ UNCHANGED << typeCache, heap, tr >>
        /\ UNCHANGED conc

\* GetAllExceptions as it would be if it unlinked the exceptions it walks over
DoGetAllExceptions_Unlinks ==
    \E e \in 0..Len(heap) :
        /\ Ready
        /\ last' = [Read("GetAllExceptions", e) EXCEPT !.all = GetAllExceptions(heap, e)]
        /\ heap' = [i \in DOMAIN heap |->
                       IF i \in Reachable(heap, e) THEN [heap[i] EXCEPT !.Inner = NilPtr]
                       ELSE heap[i]]
        /\ UNCHANGED << typeCache, tr >>
        /\ UNCHANGED conc

DoGetAllExceptions ==
    \E e \in 0..Len(heap) :
        /\ Ready
        /\ last' = [Read("GetAllExceptions", e) EXCEPT !.all = GetAllExceptions(heap, e)]
        /\ UNCHANGED << typeCache, heap, tr >>
        /\ UNCHANGED conc

\* the caller has looked at the outcome of its call and goes on
Resume ==
    /\ ~Ready
    /\ last' = NoCall
    /\ UNCHANGED << typeCache, heap, tr >>
    /\ UNCHANGED conc

Next ==
    \/ DoTry
    \/ DoCatch
    \/ DoOn
    \/ DoCatchBuilderAny
    \/ DoHandle
    \/ DoAny
    \/ DoFinally
    \/ DoCatchBuilderFinally
    \/ DoEnd
    \/ DoRethrow
    \/ DoFindInnerException
    \/ DoHasInnerException
    \/ DoGetInnerException
    \/ DoGetFullMessage
    \/ DoGetAllExceptions
    \/ Resume

Spec == Init /\ [][Next]_vars

(***************************************************************************)
(* A caller that keeps every exception it has seen: the results of its     *)
(* earlier Try calls and the `full` copies its handlers were given stay    *)
(* reachable, so `heap` holds every Exception value allocated so far.      *)
(***************************************************************************)
InitKept ==
    /\ typeCache = << >>
    /\ heap = << >>
    /\ tr = NilResult
    /\ last = NoCall
    /\ goroutines = << >>
    /\ typeCacheMutex = Unlocked

\* the tryBlocks of this caller: Throw, ThrowWithInner on any exception it
\* keeps (or nil), Rethrow of the result it holds
KeptBlocks(h) ==
    { Block("Throw", k, NilPtr, NoPayload, 0) : k \in ThrownKinds }
    \cup { Block("ThrowWithInner", WrappingKind, i, NoPayload, 0) : i \in 0..Len(h) }
    \cup { Block("Rethrow", NoKind, NilPtr, NoPayload, 0) }

\* tr = Try(tryBlock), the previous result and its exception being kept
KeepTry ==
    \E b \in KeptBlocks(heap) :
        LET t == Try(b, tr, heap)
        IN  /\ Len(heap) < MaxKept
            /\ heap' = IF t.has THEN Alloc(heap, t.ex) ELSE heap
            /\ tr' = TryResult(IF t.has THEN Len(heap') ELSE NilPtr)
            /\ UNCHANGED << typeCache, last >>
            /\ UNCHANGED conc

\* tr.Any(func(full Exception) { kept = &full }): the handler is handed
\* *tr.exception by value and keeps a pointer to its copy
KeepFull ==
    /\ Len(heap) < MaxKept
    /\ TryResultAny(typeCache, tr, heap, HandlerAny, FALSE).fired # << >>
    /\ heap' = Alloc(heap, TryResultAny(typeCache, tr, heap, HandlerAny, FALSE).fired[1].ex)
    /\ tr' = SetHandled(tr, TRUE)
    /\ UNCHANGED << typeCache, last >>
    /\ UNCHANGED conc

NextKept ==
    \/ KeepTry
    \/ KeepFull

SpecKept == InitKept /\ [][NextKept]_vars

(***************************************************************************)
(* Deep call stacks: tryBlocks that throw or panic from up to MaxDepth     *)
(* nested user functions.                                                  *)
(***************************************************************************)
DeepBlocks(h) ==
    { Block("Throw", CustomA("x"), NilPtr, NoPayload, d) : d \in 0..MaxDepth }
    \cup { Block("ThrowWithInner", WrappingKind, i, NoPayload, d) :
             i \in { j \in 0..Len(h) : ChainLen(h, j) < MaxChain }, d \in 0..MaxDepth }
    \cup { Block("panic", NoKind, NilPtr, Payload("string", "boom", 0, NoKind, NoException), d) :
             d \in 0..MaxDepth }

DeepTry ==
    \E b \in DeepBlocks(heap) :
        LET t == Try(b, tr, heap)
            grown == Alloc(heap, t.ex)
        IN  /\ Ready
            /\ heap' = Collect(grown, Len(grown))
            /\ tr' = TryResult(Len(heap'))
            /\ last' = Last("Try", << >>, b, tr, << >>, 0, "returned", NoKind)
            /\ UNCHANGED typeCache
            /\ UNCHANGED conc

NextDeep == DeepTry \/ Resume

SpecDeep == Init /\ [][NextDeep]_vars

(***************************************************************************)
(* tryBlocks of several statements, with side effects before and after a   *)
(* throw.                                                                  *)
(***************************************************************************)
ScriptTry ==
    \E stmts \in Scripts :
        LET b == Script(stmts)
            t == Try(b, tr, heap)
            run == RunScript(stmts, 1, << >>)
        IN  /\ Ready
            /\ heap' = IF t.has THEN << t.ex >> ELSE << >>
            /\ tr' = TryResult(IF t.has THEN 1 ELSE NilPtr)
            /\ last' = [Last("Try", << >>, b, tr, << >>, 0, "returned", NoKind)
                            EXCEPT !.marks = run.marks, !.steps = run.steps]
            /\ UNCHANGED typeCache
            /\ UNCHANGED conc

NextScript == ScriptTry \/ Resume

SpecScript == Init /\ [][NextScript]_vars

(***************************************************************************)
(* Handlers declared for a struct type, for the pointer type to it and for *)
(* the interface ExceptionType, on kinds thrown by value and by pointer.   *)
(***************************************************************************)
\* the types a handler is declared for: Catch[CustomA], Catch[*CustomA],
\* Catch[ExceptionType]
ExactTypes == { "CustomA", PointerTo("CustomA"), "ExceptionType" }

\* &CustomA{..}: the kind thrown by pointer
AddressOf(k) == [k EXCEPT !.type = PointerTo(k.type)]

\* Throw(CustomA{"x"}) and Throw(&CustomA{"x"})
ExactKinds == { CustomA("x"), AddressOf(CustomA("x")) }

ExactHandlers == { Handler(T) : T \in ExactTypes }

ExactTry ==
    \E k \in ExactKinds :
        LET b == Block("Throw", k, NilPtr, NoPayload, 0)
            t == Try(b, tr, heap)
        IN  /\ Ready
            /\ heap' = << t.ex >>
            /\ tr' = TryResult(1)
            /\ last' = Last("Try", << >>, b, tr, << >>, 0, "returned", NoKind)
            /\ UNCHANGED typeCache
            /\ UNCHANGED conc

ExactCatch ==
    \E hd \in ExactHandlers, panics \in BOOLEAN :
        Dispatch("Catch", << hd >>, Catch(typeCache, tr, heap, hd, FALSE),
                 Catch(typeCache, tr, heap, hd, panics))

ExactOn ==
    \E hd \in ExactHandlers, panics \in BOOLEAN :
        Dispatch("On", << hd >>, On(typeCache, When(tr), heap, hd, FALSE),
                 On(typeCache, When(tr), heap, hd, panics))

ExactHandle ==
    \E hd \in ExactHandlers, panics \in BOOLEAN :
        Dispatch("Handle", << hd >>, Handle(typeCache, tr, heap, << hd >>, FALSE),
                 Handle(typeCache, tr, heap, << hd >>, panics))

NextExact == ExactTry \/ ExactCatch \/ ExactOn \/ ExactHandle \/ Resume

SpecExact == Init /\ [][NextExact]_vars

(***************************************************************************)
(* Parallel callers.  Each goroutine runs                                  *)
(*     Try(func() { Throw(k) }).Handle(Handler[K1](..), Handler[K2](..))   *)
(* on a TryResult of its own; the goroutines share typeCache and           *)
(* typeCacheMutex only.  One step is one statement of isTypeMatch.         *)
(***************************************************************************)
Goroutines == 1..MaxGoroutines

\* the kinds the parallel tryBlocks throw, one per goroutine
ParallelKinds == { ArgumentNullException("user", ""), InvalidOperationException("failed") }

\* the argument list every goroutine hands to Handle
ParallelHandlers == << Handler("ArgumentNullException"), Handler("InvalidOperationException") >>

\* a goroutine: where it is, its TryResult (has, ex, handled), the index of
\* the handler Handle has reached, the locals of isTypeMatch and the handler
\* invocations made on its behalf
Goroutine(pc, has, ex, handled, i, cached, exists, match, fired) ==
    [pc |-> pc, has |-> has, ex |-> ex, handled |-> handled, i |-> i,
     cached |-> cached, exists |-> exists, match |-> match, fired |-> fired]

Started == Goroutine("Try", FALSE, NoException, FALSE, 1, FALSE, FALSE, FALSE, << >>)

InitParallel ==
    /\ typeCache = << >>
    /\ heap = << >>
    /\ tr = NilResult
    /\ last = NoCall
    /\ goroutines = [g \in Goroutines |-> Started]
    /\ typeCacheMutex = Unlocked

\* the cache key of the isTypeMatch call goroutine g is in
cacheKey(g) == getTypeOf(ParallelHandlers[goroutines[g].i].T)

\* Try(func() { Throw(k) })
GoTry(g) ==
    /\ goroutines[g].pc = "Try"
    /\ \E k \in ParallelKinds :
          LET t == Try(Block("Throw", k, NilPtr, NoPayload, 0), NilResult, << >>)
          IN  goroutines' = [goroutines EXCEPT ![g] =
                  [@ EXCEPT !.pc = "Handle", !.has = t.has, !.ex = t.ex]]
    /\ UNCHANGED << typeCache, typeCacheMutex, heap, tr, last >>

\* Handle: the early return, then the head of its loop over the handlers
GoHandle(g) ==
    /\ goroutines[g].pc = "Handle"
    /\ goroutines' = [goroutines EXCEPT ![g].pc =
          IF ~goroutines[g].has \/ goroutines[g].handled THEN "done"
          ELSE IF goroutines[g].i > Len(ParallelHandlers) THEN "done"
          ELSE "RLock"]
    /\ UNCHANGED << typeCache, typeCacheMutex, heap, tr, last >>

\* typeCacheMutex.RLock()
RLock(g) ==
    /\ goroutines[g].pc = "RLock"
    /\ typeCacheMutex.writer = 0
    /\ typeCacheMutex' = [typeCacheMutex EXCEPT !.readers = @ \cup {g}]
    /\ goroutines' = [goroutines EXCEPT ![g].pc = "lookup"]
    /\ UNCHANGED << typeCache, heap, tr, last >>

\* cached, exists := typeCache[cacheKey]
Lookup(g) ==
    /\ goroutines[g].pc = "lookup"
    /\ LET exists == cacheKey(g) \in DOMAIN typeCache
       IN  goroutines' = [goroutines EXCEPT ![g] =
               [@ EXCEPT !.pc = "RUnlock", !.exists = exists,
                         !.cached = exists /\ typeCache[cacheKey(g)]]]
    /\ UNCHANGED << typeCache, typeCacheMutex, heap, tr, last >>

\* RUnlock as it would be if the cache-hit branch returned `cached` alone
RUnlock_TrustsCache(g) ==
    /\ goroutines[g].pc = "RUnlock"
    /\ typeCacheMutex' = [typeCacheMutex EXCEPT !.readers = @ \ {g}]
    /\ LET actualType == TypeOf(goroutines[g].ex.Type)
           expectedType == cacheKey(g)
       IN  goroutines' = [goroutines EXCEPT ![g] =
               IF goroutines[g].exists
               THEN [@ EXCEPT !.pc = "return", !.match = goroutines[g].cached]
               ELSE [@ EXCEPT !.pc = "Lock", !.match = (actualType = expectedType)]]
    /\ UNCHANGED << typeCache, heap, tr, last >>

\* RUnlock as it would be if only the cache-hit branch released the read lock
RUnlock_OnHitOnly(g) ==
    /\ goroutines[g].pc = "RUnlock"
    /\ typeCacheMutex' = IF goroutines[g].exists
                         THEN [typeCacheMutex EXCEPT !.readers = @ \ {g}]
                         ELSE typeCacheMutex
    /\ LET actualType == TypeOf(goroutines[g].ex.Type)
           expectedType == cacheKey(g)
       IN  goroutines' = [goroutines EXCEPT ![g] =
               IF goroutines[g].exists
               THEN [@ EXCEPT !.pc = "return",
                              !.match = goroutines[g].cached /\ actualType = expectedType]
               ELSE [@ EXCEPT !.pc = "Lock", !.match = (actualType = expectedType)]]
    /\ UNCHANGED << typeCache, heap, tr, last >>

\* typeCacheMutex.RUnlock() on either branch, and the value of `match`
RUnlock(g) ==
    /\ goroutines[g].pc = "RUnlock"
    /\ typeCacheMutex' = [typeCacheMutex EXCEPT !.readers = @ \ {g}]
    /\ LET actualType == TypeOf(goroutines[g].ex.Type)
           expectedType == cacheKey(g)
       IN  goroutines' = [goroutines EXCEPT ![g] =
               IF goroutines[g].exists
               THEN [@ EXCEPT !.pc = "return",
                              !.match = goroutines[g].cached /\ actualType = expectedType]
               ELSE [@ EXCEPT !.pc = "Lock", !.match = (actualType = expectedType)]]
    /\ UNCHANGED << typeCache, heap, tr, last >>

\* Lock as it would be if a writer did not wait for the readers to leave
Lock_IgnoresReaders(g) ==
    /\ goroutines[g].pc = "Lock"
    /\ typeCacheMutex.writer = 0
    /\ typeCacheMutex' = [typeCacheMutex EXCEPT !.writer = g]
    /\ goroutines' = [goroutines EXCEPT ![g].pc = "store"]
    /\ UNCHANGED << typeCache, heap, tr, last >>

\* typeCacheMutex.Lock()
Lock(g) ==
    /\ goroutines[g].pc = "Lock"
    /\ typeCacheMutex = Unlocked
    /\ typeCacheMutex' = [typeCacheMutex EXCEPT !.writer = g]
    /\ goroutines' = [goroutines EXCEPT ![g].pc = "store"]
    /\ UNCHANGED << typeCache, heap, tr, last >>

\* typeCache[cacheKey] = match
Store(g) ==
    /\ goroutines[g].pc = "store"
    /\ typeCache' = CachePut(typeCache, cacheKey(g), goroutines[g].match)
    /\ goroutines' = [goroutines EXCEPT ![g].pc = "Unlock"]
    /\ UNCHANGED << typeCacheMutex, heap, tr, last >>

\* typeCacheMutex.Unlock()
Unlock(g) ==
    /\ goroutines[g].pc = "Unlock"
    /\ typeCacheMutex' = [typeCacheMutex EXCEPT !.writer = 0]
    /\ goroutines' = [goroutines EXCEPT ![g].pc = "return"]
    /\ UNCHANGED << typeCache, heap, tr, last >>

\* isTypeMatch has returned into TypedHandler.Handle: the handler is invoked
\* and Handle sets handled and breaks, or Handle goes on to the next handler
GoTypedHandlerHandle(g) ==
    /\ goroutines[g].pc = "return"
    /\ LET me == goroutines[g]
       IN  goroutines' = [goroutines EXCEPT ![g] =
               IF me.match
               THEN IF TypeOf(me.ex.Type) # ParallelHandlers[me.i].T
                    THEN [@ EXCEPT !.pc = "panicked"]      \* ex.Type.(T) fails
                    ELSE [@ EXCEPT !.pc = "done", !.handled = TRUE,
                                   !.fired = Append(@, Invocation(me.i, ParallelHandlers[me.i],
                                                                  me.ex.Type, me.ex))]
               ELSE [@ EXCEPT !.pc = "Handle", !.i = @ + 1]]
    /\ UNCHANGED << typeCache, typeCacheMutex, heap, tr, last >>

NextParallel ==
    \E g \in Goroutines :
        \/ GoTry(g)
        \/ GoHandle(g)
        \/ RLock(g)
        \/ Lookup(g)
        \/ RUnlock(g)
        \/ Lock(g)
        \/ Store(g)
        \/ Unlock(g)
        \/ GoTypedHandlerHandle(g)

SpecParallel == InitParallel /\ [][NextParallel]_vars

\* the next statement of goroutine g
GoStep(g) ==
    \/ GoTry(g)
    \/ GoHandle(g)
    \/ RLock(g)
    \/ Lookup(g)
    \/ RUnlock(g)
    \/ Lock(g)
    \/ Store(g)
    \/ Unlock(g)
    \/ GoTypedHandlerHandle(g)

\* the parallel callers under a fair scheduler: a goroutine whose next
\* statement can run without interruption eventually runs it
SpecParallelFair ==
    /\ InitParallel
    /\ [][NextParallel]_vars
    /\ \A g \in Goroutines : WF_vars(GoStep(g))

(***************************************************************************)
(* Vocabulary of the properties                                            *)
(***************************************************************************)
TypedDispatch == {"Catch", "On", "Handle"}

AnyDispatch == {"Any", "CatchBuilder.Any"}

FinallyCalls == {"Finally", "CatchBuilder.Finally"}

\* the call just made was given a result that carries an unclaimed exception
PreLive == ~last.pre.nil /\ last.pre.exception # NilPtr /\ ~last.pre.handled

\* the call just made was given a result of a tryBlock that raised nothing
PreClean == ~last.pre.nil /\ last.pre.exception = NilPtr

\* the exception of the result the call was given (dispatch leaves the heap alone)
PreEx == heap[last.pre.exception]

\* the matching rule: a catch-all matches everything, a typed handler exactly its type
Matches(hd, ex) == hd.style = "any" \/ (hd.style = "typed" /\ hd.T = TypeOf(ex.Type))

\* position of the first entry of hs that matches ex, 0 when there is none
FirstMatch(hs, ex) ==
    IF \E i \in DOMAIN hs : Matches(hs[i], ex)
    THEN CHOOSE i \in DOMAIN hs :
            Matches(hs[i], ex) /\ \A j \in 1..(i - 1) : ~Matches(hs[j], ex)
    ELSE 0

\* the invocation the matching rule calls for at position i
Expected(hs, i, ex) ==
    Invocation(i, hs[i], IF hs[i].style = "typed" THEN ex.Type ELSE NoKind, ex)

\* does tryBlock b panic when the caller holds result r ?
BlockPanics(b, r) ==
    \/ b.do \in {"Throw", "ThrowWithInner", "panic"}
    \/ b.do = "Rethrow" /\ ~r.nil /\ r.exception # NilPtr /\ ~r.handled
    \/ b.do = "Try" /\ b.innerDo # "return" /\ b.after # "return"
    \/ b.do = "ThrowIfNil" /\ (b.value = NilInterface \/ b.value.IsNil)
    \/ b.do = "ThrowIf" /\ b.condition
    \/ b.do = "Script" /\ \E i \in DOMAIN b.script : b.script[i] # "mark"

(***************************************************************************)
(* C1 .. C10                                                               *)
(***************************************************************************)
\* C1: the cache never changes a match decision: in every reachable cache
\* state isTypeMatch[T](actualType) is true exactly when actualType is T.
C1_CacheNeverChangesDecision ==
    \A T \in DeclaredTypes, actualType \in KindTypes :
        isTypeMatch(typeCache, T, actualType).match = (actualType = T)

\* C2: a dispatch with a handler for K on the fresh result of a Try that threw
\* a kind value k of type K invokes that handler exactly once, with k and the
\* full Exception, and a handler that returns leaves the result claimed.
C2_HandlerForThrownKindFires ==
    (last.op \in TypedDispatch /\ PreLive) =>
        \A i \in DOMAIN last.hs :
            (/\ last.hs[i] = Handler(TypeOf(PreEx.Type))
             /\ FirstMatch(last.hs, PreEx) = i) =>
                /\ last.fired = << Invocation(i, last.hs[i], PreEx.Type, PreEx) >>
                /\ last.outcome = "returned" => tr.handled

\* C3: a typed handler is invoked only for an exception whose kind has exactly
\* the declared runtime type, also when another type has the same fields and
\* the same TypeName(); the kind value it receives is the exception's Type.
C3_TypedHandlerOnlyForItsType ==
    last.op \in TypedDispatch =>
        \A n \in DOMAIN last.fired :
            last.fired[n].h.style = "typed" =>
                /\ PreLive
                /\ last.fired[n].ex = PreEx
                /\ last.fired[n].kind = PreEx.Type
                /\ last.fired[n].h.T = TypeOf(PreEx.Type)

\* C3 witness: Catch[CustomA] met a CustomB exception with the same fields and
\* the same TypeName() and did not fire.
C3_Witness ==
    /\ last.op = "Catch" /\ PreLive
    /\ last.hs = << Handler("CustomA") >>
    /\ PreEx.Type = CustomB("x")
    /\ TypeName(PreEx.Type) = TypeName(CustomA("x"))
    /\ last.fired = << >> /\ ~tr.handled /\ last.outcome = "returned"

\* C4: Handle on an unclaimed exception invokes exactly the first entry that
\* matches (a HandlerAny entry matches everything, a Handler[K] entry matches
\* kind K) and nothing else: position alone decides.
C4_FirstMatchingEntryWins ==
    (last.op = "Handle" /\ PreLive) =>
        LET i == FirstMatch(last.hs, PreEx)
        IN  last.fired = IF i = 0 THEN << >> ELSE << Expected(last.hs, i, PreEx) >>

\* C5: on one TryResult the handled flag only goes from false to true and
\* never back, and once it is true no call invokes a handler.
C5_HandledIsMonotone ==
    [][(tr.handled /\ last'.op # "Try") => (tr'.handled /\ last'.fired = << >>)]_vars

\* C5 witness: a second Catch for the kind of an already claimed exception ran
\* no handler.
C5_Witness ==
    /\ last.op = "Catch" /\ last.pre.exception # NilPtr
    /\ last.pre.handled /\ tr.handled
    /\ last.hs = << Handler(TypeOf(PreEx.Type)) >>
    /\ last.fired = << >>

C7_FinallyRunsCleanupOnce ==
    (last.op \in FinallyCalls /\ ~last.pre.nil) => (last.ran = 1 /\ tr = last.pre)

\* C7 witness: Finally on a result whose exception is still unclaimed.
C7_Witness ==
    /\ last.op = "Finally" /\ PreLive /\ last.ran = 1

\* C8: Try returns for every outcome of tryBlock, with a non-nil unclaimed
\* result that carries an exception exactly when tryBlock panicked.
C8_TryInterceptsEveryPanic ==
    last.op = "Try" =>
        /\ last.outcome = "returned"
        /\ ~tr.nil /\ ~tr.handled
        /\ (tr.exception # NilPtr) <=> BlockPanics(last.block, last.pre)

\* C8 witness: a native panic with an int payload was intercepted.
C8_Witness ==
    /\ last.op = "Try" /\ last.block.do = "panic" /\ last.block.payload.dyn = "int"
    /\ tr.exception # NilPtr /\ ~tr.handled

\* the textual form of the modelled native payloads
PayloadText(p) ==
    CASE p.dyn = "string" -> "boom"
      [] p.dyn = "error"  -> "io fail"
      [] p.dyn = "int"    -> "42"

\* ex is what Try makes of one of the modelled native panics
FromNativePanic(ex) ==
    /\ ex.Inner = NilPtr
    /\ \E p \in NativePayloads : ex.Type = InvalidOperationException(PayloadText(p))

\* C9: a native panic with a string, error or other payload yields an
\* InvalidOperationException whose Message is the payload's text, with no
\* Inner; Any fires for it and so does a handler for InvalidOperationException.
C9_NativePanicIsInvalidOperation ==
    /\ (last.op = "Try" /\ last.block.do = "panic"
            /\ last.block.payload.dyn \in {"string", "error", "int"}) =>
          /\ tr.exception # NilPtr
          /\ heap[tr.exception].Inner = NilPtr
          /\ heap[tr.exception].Type = InvalidOperationException(PayloadText(last.block.payload))
    /\ (last.op \in AnyDispatch /\ PreLive /\ FromNativePanic(PreEx)) =>
          last.fired = << Invocation(1, HandlerAny, NoKind, PreEx) >>
    /\ (last.op \in {"Catch", "On"} /\ PreLive /\ FromNativePanic(PreEx)
            /\ last.hs = << Handler("InvalidOperationException") >>) =>
          last.fired = << Invocation(1, last.hs[1], PreEx.Type, PreEx) >>

\* C10: on the result of a tryBlock that completed normally no dispatch call
\* invokes anything or claims the result, and Finally still runs cleanup.
C10_NoExceptionNoHandler ==
    /\ (last.op = "Try" /\ last.block.do = "return") => tr = TryResult(NilPtr)
    /\ (PreClean /\ last.op \in TypedDispatch \cup AnyDispatch) =>
          /\ last.fired = << >>
          /\ tr = last.pre /\ ~tr.handled
          /\ last.outcome = "returned"
    /\ (PreClean /\ last.op \in FinallyCalls) => last.ran = 1

\* C10 witness: Handle with a typed and a catch-all entry on a clean result.
C10_Witness ==
    /\ last.op = "Handle" /\ PreClean
    /\ last.hs = << Handler("CustomA"), HandlerAny >>
    /\ last.fired = << >> /\ ~tr.handled
(***************************************************************************)
(* C11 .. C20                                                              *)
(***************************************************************************)
\* the result r carries an exception that no handler has claimed
Live(r) == ~r.nil /\ r.exception # NilPtr /\ ~r.handled

\* C11: Rethrow panics, with the stored exception as the panic value, exactly
\* when the result carries an unclaimed exception; on a nil result, a result
\* without exception or a claimed result it returns; in every case the stored
\* exception and the handled flag are left as they were.
C11_RethrowIffUnclaimed ==
    [][last'.op = "Rethrow" =>
          /\ (last'.outcome = "panicked") <=> Live(tr)
          /\ last'.thrown = IF Live(tr)
                            THEN Payload("Exception", "", 0, NoKind, heap[tr.exception])
                            ELSE NoPayload
          /\ tr' = tr /\ heap' = heap]_vars

\* C11 witness: Rethrow outside any Try panicked with the unclaimed exception.
C11_Witness ==
    /\ last.op = "Rethrow" /\ PreLive
    /\ last.outcome = "panicked" /\ last.thrown.ex = PreEx
    /\ tr = last.pre

\* C12: when several goroutines run Try(..).Handle(Handler[K1], Handler[K2])
\* in parallel, each on its own TryResult and each throwing K1 or K2, every
\* goroutine's exception is claimed by the handler for its own kind.
C12_ParallelClaimedByOwnKind ==
    \A g \in DOMAIN goroutines :
        goroutines[g].pc = "done" =>
            /\ goroutines[g].handled
            /\ \E i \in DOMAIN ParallelHandlers :
                  /\ ParallelHandlers[i].T = TypeOf(goroutines[g].ex.Type)
                  /\ goroutines[g].fired =
                        << Invocation(i, ParallelHandlers[i], goroutines[g].ex.Type,
                                      goroutines[g].ex) >>

\* C13: for every result and every ordered list of typed handlers, the three
\* styles (successive Catch calls, successive On calls on When(), one Handle
\* call) invoke the same handler, or none, with the same arguments and end
\* with the same handled flag.
C13_ThreeStylesAgree ==
    [][(last'.op = "Handle" /\ \A i \in DOMAIN last'.hs : last'.hs[i].style = "typed") =>
          LET panics == (last'.outcome = "panicked")
              c == CatchEach(typeCache, tr, heap, last'.hs, 1, << >>, panics)
              o == OnEach(typeCache, When(tr), heap, last'.hs, 1, << >>, panics)
          IN  /\ c.fired = last'.fired /\ o.fired = last'.fired
              /\ c.handled = tr'.handled /\ o.handled = tr'.handled
              /\ c.outcome = last'.outcome /\ o.outcome = last'.outcome]_vars

\* C13 witness: Handle with two typed handlers invoked the second one, as
\* the Catch calls and the On calls for the same list do.
C13_Witness ==
    /\ last.op = "Handle" /\ PreLive
    /\ Len(last.hs) = 2 /\ last.hs[1].style = "typed"
    /\ last.fired = << Invocation(2, last.hs[2], PreEx.Type, PreEx) >>
    /\ tr.handled

\* C14: nested Try regions are independent.  What an inner tryBlock raises is
\* captured by the inner Try, in the inner TryResult only; the outer
\* TryResult carries an exception only when something is raised outside the
\* inner tryBlock (a throw from a handler of the inner result, an inner
\* Rethrow), and then it carries what was raised there.
C14_NestedTryIndependent ==
    (last.op = "Try" /\ last.block.do = "Try") =>
        /\ last.outcome = "returned"
        /\ (last.nested.exception # NilPtr) <=> (last.block.innerDo # "return")
        /\ last.block.innerDo = "Throw" => last.nestedEx.Type = last.block.kind
        /\ last.block.after = "return" => (tr = TryResult(NilPtr) /\ heap = << >>)
        /\ last.nested.exception = NilPtr => tr = TryResult(NilPtr)
        /\ (last.block.after = "Any throws" /\ last.nested.exception # NilPtr) =>
              /\ tr.exception # NilPtr
              /\ heap[tr.exception].Type = WrappingKind
              /\ heap[tr.exception].Inner = NilPtr
        /\ (last.block.after = "Rethrow" /\ last.nested.exception # NilPtr) =>
              /\ tr.exception # NilPtr
              /\ heap[tr.exception] = last.nestedEx

\* C14 witness: the inner Try captured a CustomA exception, the outer block
\* returned, and the outer result carries no exception.
C14_Witness ==
    /\ last.op = "Try" /\ last.block.do = "Try"
    /\ last.block.innerDo = "Throw" /\ last.block.after = "return"
    /\ last.nested.exception # NilPtr /\ last.nestedEx.Type = CustomA("x")
    /\ tr = TryResult(NilPtr)

\* C15: a chain built by N causally linked throws has N elements in
\* GetAllExceptions(), the outermost first and then in Inner order; an
\* exception thrown without inner gives one element and has no inner.
C15_GetAllExceptionsListsChain ==
    [][/\ (last'.op = "Try" /\ last'.block.do = "Throw") =>
             /\ tr'.exception # NilPtr
             /\ Len(GetAllExceptions(heap', tr'.exception)) = 1
             /\ ~HasInnerException(heap', tr'.exception)
       /\ (last'.op = "Try" /\ last'.block.do = "ThrowWithInner") =>
             LET all == GetAllExceptions(heap', tr'.exception)
                 was == GetAllExceptions(heap, last'.block.inner)
             IN  /\ tr'.exception # NilPtr
                 /\ Len(all) = 1 + Len(was)
                 /\ all[1] = tr'.exception
                 /\ \A i \in DOMAIN was :
                       /\ heap'[all[i + 1]].Type = heap[was[i]].Type
                       /\ heap'[all[i + 1]].StackTrace = heap[was[i]].StackTrace
       /\ (last'.op = "GetAllExceptions" /\ last'.arg # NilPtr) =>
             LET all == last'.all
             IN  /\ Len(all) >= 1
                 /\ all[1] = last'.arg
                 /\ \A i \in 1..(Len(all) - 1) : all[i + 1] = heap[all[i]].Inner
                 /\ heap[all[Len(all)]].Inner = NilPtr
                 /\ (Len(all) = 1) <=> ~HasInnerException(heap, last'.arg)]_vars

\* C15 witness: GetAllExceptions on the outer exception of two linked throws
\* returned the outer exception, then its inner.
C15_Witness ==
    /\ last.op = "GetAllExceptions" /\ Len(last.all) = 2
    /\ last.all[1] = last.arg /\ last.all[2] = heap[last.arg].Inner
    /\ heap[last.arg].Type = WrappingKind

\* position in GetAllExceptions order of the first exception of the chain at e
\* whose kind has runtime type T, 0 when there is none
FirstOfType(h, e, T) ==
    LET all == GetAllExceptions(h, e)
        hits == { i \in DOMAIN all : TypeOf(h[all[i]].Type) = T }
    IN  IF hits = {} THEN 0 ELSE CHOOSE i \in hits : \A j \in hits : i <= j

\* position of the last one, 0 when there is none
LastOfType(h, e, T) ==
    LET all == GetAllExceptions(h, e)
        hits == { i \in DOMAIN all : TypeOf(h[all[i]].Type) = T }
    IN  IF hits = {} THEN 0 ELSE CHOOSE i \in hits : \A j \in hits : j <= i

\* number of exceptions of the chain at e whose kind has runtime type T
CountOfType(h, e, T) ==
    Cardinality({ p \in Reachable(h, e) : TypeOf(h[p].Type) = T })

\* C16: FindInnerException[K](e) returns the kind value of the first
\* exception, from e on along Inner, whose kind has runtime type exactly K,
\* and in every reachable state it returns nil exactly when no exception of
\* the chain (e included) has kind K.
C16_FindInnerExceptionNilIffAbsent ==
    last.op = "FindInnerException" =>
        LET T == last.hs[1].T
            i == FirstOfType(heap, last.arg, T)
        IN  /\ (last.ret = NoKind) <=> (i = 0)
            /\ i # 0 => last.ret = heap[GetAllExceptions(heap, last.arg)[i]].Type

\* C17 as stated, for the calls that return a value: with more than one
\* exception of kind K in the chain, FindInnerException[K] returns the first
\* match in innermost-to-outermost order, i.e. the innermost one.
C17_FirstMatchInnermostFirst ==
    (/\ last.op = "FindInnerException"
     /\ last.ret # NoKind
     /\ CountOfType(heap, last.arg, last.hs[1].T) > 1) =>
        last.ret = heap[GetAllExceptions(heap, last.arg)
                            [LastOfType(heap, last.arg, last.hs[1].T)]].Type

\* C17 amended: with more than one exception of kind K in the chain, a value
\* returned by FindInnerException[K] is that of the first match in
\* outermost-to-innermost order: the match nearest to e along Inner.
C17_FirstMatchOutermostFirst ==
    (/\ last.op = "FindInnerException"
     /\ last.ret # NoKind
     /\ CountOfType(heap, last.arg, last.hs[1].T) > 1) =>
        last.ret = heap[GetAllExceptions(heap, last.arg)
                            [FirstOfType(heap, last.arg, last.hs[1].T)]].Type

\* C17 witness: two InvalidOperationException in the chain, and the value of
\* the outer one, not of the inner one, was returned.
C17_Witness ==
    /\ last.op = "FindInnerException" /\ last.hs = << Handler("InvalidOperationException") >>
    /\ last.arg # NilPtr /\ heap[last.arg].Inner # NilPtr
    /\ TypeOf(heap[heap[last.arg].Inner].Type) = "InvalidOperationException"
    /\ last.ret = heap[last.arg].Type
    /\ last.ret # heap[heap[last.arg].Inner].Type

\* texts[1..n] joined by the separator
RECURSIVE Join(_, _)
Join(texts, n) ==
    IF n = 1 THEN texts[1] ELSE Join(texts, n - 1) \o " --> " \o texts[n]

\* C18: GetFullMessage() is the exception's own Error() text followed, when
\* it has an inner exception, by " --> " and the inner's GetFullMessage():
\* the N texts of the chain, outermost first, joined by N - 1 separators.
C18_GetFullMessageJoinsChain ==
    last.op = "GetFullMessage" =>
        LET all == GetAllExceptions(heap, last.arg)
            texts == [i \in DOMAIN all |-> Error(heap[all[i]].Type)]
        IN  /\ last.text = Join(texts, Len(texts))
            /\ ~HasInnerException(heap, last.arg) => last.text = Error(heap[last.arg].Type)

\* C18 witness: the message of a wrapped CustomA exception.
C18_Witness ==
    /\ last.op = "GetFullMessage"
    /\ last.text = "InvalidOperationException: init failed --> CustomException: x"

\* the chain helpers that only read
ChainReads == {"HasInnerException", "GetInnerException", "GetFullMessage", "GetAllExceptions"}

\* C19: HasInnerException, GetInnerException, GetFullMessage and
\* GetAllExceptions only read: a call leaves every exception, the result
\* and the cache as they were, so that the same call made again returns
\* the same value.
C19_ChainReadsChangeNothing ==
    [][last'.op \in ChainReads =>
          /\ heap' = heap /\ tr' = tr /\ typeCache' = typeCache
          /\ last'.op = "GetAllExceptions" => last'.all = GetAllExceptions(heap', last'.arg)
          /\ last'.op = "HasInnerException" =>
                last'.flag = HasInnerException(heap', last'.arg)
          /\ last'.op = "GetInnerException" =>
                last'.ptr = GetInnerException(heap', last'.arg)
          /\ last'.op = "GetFullMessage" => last'.text = GetFullMessage(heap', last'.arg)]_vars

\* C19 witness: GetInnerException returned the inner exception, which is
\* still linked.
C19_Witness ==
    /\ last.op = "GetInnerException" /\ last.ptr # NilPtr
    /\ heap[last.arg].Inner = last.ptr

\* C20: a panic of the cleanup action of Finally reaches the caller of
\* Finally; the stored exception and the handled flag stay as they were and
\* the cleanup fault is not linked to the stored exception as Inner.
C20_CleanupPanicPropagates ==
    [][(last'.op \in FinallyCalls /\ last'.faulted) =>
          /\ last'.outcome = "panicked"
          /\ last'.thrown = CleanupFault
          /\ tr' = tr /\ heap' = heap]_vars

\* C20 witness: cleanup panicked in Finally on a result with an unclaimed
\* exception without inner.
C20_Witness ==
    /\ last.op = "Finally" /\ PreLive /\ last.faulted
    /\ last.outcome = "panicked" /\ last.thrown = CleanupFault
    /\ tr = last.pre /\ PreEx.Inner = NilPtr

(***************************************************************************)
(* C21 .. C30                                                              *)
(***************************************************************************)
\* the calls that may invoke handlers or cleanup, and End
Consumers == TypedDispatch \cup AnyDispatch \cup FinallyCalls \cup {"End"}

C22_ChainsAcyclic ==
    \A p \in DOMAIN heap :
        /\ heap[p].Inner < p
        /\ Len(GetAllExceptions(heap, p)) <= p
        /\ \A i, j \in DOMAIN GetAllExceptions(heap, p) :
              i < j => GetAllExceptions(heap, p)[i] > GetAllExceptions(heap, p)[j]
        /\ GetFullMessage(heap, p) # ""
        /\ \A T \in DeclaredTypes :
              FindInnerException(typeCache, T, p, heap).found \in
                  {NoKind} \cup { heap[q].Type : q \in DOMAIN heap }

\* C22 witness: a chain of three exceptions, walked to its end.
C22_Witness ==
    /\ Len(heap) = 3 /\ heap[3].Inner = 2 /\ heap[2].Inner = 1 /\ heap[1].Inner = NilPtr
    /\ GetAllExceptions(heap, 3) = << 3, 2, 1 >>

\* C23: no exception is the Inner of two distinct exceptions.
C23_InnerNeverShared ==
    \A p, q \in DOMAIN heap :
        (p # q /\ heap[p].Inner # NilPtr) => heap[p].Inner # heap[q].Inner

\* C24 as stated: CatchBuilder.Any claims the result unconditionally, so that
\* the handled flag is true whenever it has returned.
C24_FallbackAlwaysClaims ==
    (last.op = "CatchBuilder.Any" /\ ~last.pre.nil /\ last.outcome = "returned") =>
        tr.handled

\* C24 amended: CatchBuilder.Any invokes its handler, with the full
\* exception, only if the result carries an exception that is still
\* unclaimed, and claims the result exactly when it invoked the handler and
\* the handler returned; a result without exception stays unclaimed.
C24_FallbackClaimsWhenInvoked ==
    last.op = "CatchBuilder.Any" =>
        /\ last.fired = IF PreLive THEN << Invocation(1, HandlerAny, NoKind, PreEx) >>
                        ELSE << >>
        /\ tr.handled <=> (last.pre.handled
                              \/ (last.fired # << >> /\ last.outcome = "returned"))

\* C24 witness: CatchBuilder.Any on the result of a tryBlock that raised
\* nothing returned and left the result unclaimed.
C24_Witness ==
    /\ last.op = "CatchBuilder.Any" /\ PreClean
    /\ last.fired = << >> /\ last.outcome = "returned" /\ ~tr.handled

\* C25: ThrowIfNil(paramName, value) raises an ArgumentNullException with
\* ParamName = paramName exactly when value is the nil interface or a nil
\* pointer, map, slice, channel or function; for every other value it returns
\* and the code after it runs.
C25_ThrowIfNilIffNil ==
    (last.op = "Try" /\ last.block.do = "ThrowIfNil") =>
        LET v == last.block.value
            isNil == \/ v = NilInterface
                     \/ v.Kind \in {"Ptr", "Map", "Slice", "Chan", "Func"} /\ v.IsNil
        IN  /\ isNil =>
                  /\ tr.exception # NilPtr /\ ~last.flag
                  /\ TypeOf(heap[tr.exception].Type) = "ArgumentNullException"
                  /\ heap[tr.exception].Type.ParamName = last.block.paramName
                  /\ heap[tr.exception].Inner = NilPtr
            /\ ~isNil => (tr = TryResult(NilPtr) /\ last.flag)

\* C25 witness: a nil map raised ArgumentNullException for parameter "id".
C25_Witness ==
    /\ last.op = "Try" /\ last.block.do = "ThrowIfNil"
    /\ last.block.value = Value(FALSE, "Map", TRUE) /\ last.block.paramName = "id"
    /\ tr.exception # NilPtr
    /\ heap[tr.exception].Type = ArgumentNullException("id", "")

\* C26: ThrowIf(condition, kind) raises kind if and only if condition is
\* true; when it is false nothing happens and the statements after it run.
C26_ThrowIfIffCondition ==
    (last.op = "Try" /\ last.block.do = "ThrowIf") =>
        /\ last.block.condition =>
              /\ tr.exception # NilPtr /\ ~last.flag
              /\ heap[tr.exception].Type = last.block.kind
              /\ heap[tr.exception].Inner = NilPtr
        /\ ~last.block.condition => (tr = TryResult(NilPtr) /\ heap = << >> /\ last.flag)

\* C26 witness: ThrowIf(false, ..) returned and the next statement ran.
C26_Witness ==
    /\ last.op = "Try" /\ last.block.do = "ThrowIf" /\ ~last.block.condition
    /\ last.flag /\ tr = TryResult(NilPtr)

\* Type and StackTrace of every exception of the chain that starts at p
RECURSIVE ChainContents(_, _)
ChainContents(h, p) ==
    IF p = NilPtr THEN << >>
    ELSE << [Type |-> h[p].Type, StackTrace |-> h[p].StackTrace] >>
             \o ChainContents(h, h[p].Inner)

\* C27: Try stores an already-constructed Exception unchanged: for an
\* unclaimed result r, Try(func(){ r.Rethrow() }) yields an unclaimed result
\* whose exception has the Type, StackTrace and Inner chain of r's exception,
\* with no additional wrapping and the same chain length.
C27_RethrowStoredUnchanged ==
    [][(last'.op = "Try" /\ last'.block.do = "Rethrow" /\ Live(tr)) =>
          /\ tr' = TryResult(Len(heap')) /\ tr'.exception # NilPtr
          /\ heap'[tr'.exception].Type = heap[tr.exception].Type
          /\ heap'[tr'.exception].StackTrace = heap[tr.exception].StackTrace
          /\ (heap'[tr'.exception].Inner = NilPtr) <=> (heap[tr.exception].Inner = NilPtr)
          /\ ChainContents(heap', tr'.exception) = ChainContents(heap, tr.exception)
          /\ ChainLen(heap', tr'.exception) = ChainLen(heap, tr.exception)]_vars

\* C27 witness: a rethrown exception with an inner exception was stored by
\* the enclosing Try with its chain of two.
C27_Witness ==
    /\ last.op = "Try" /\ last.block.do = "Rethrow" /\ Live(last.pre)
    /\ tr.exception # NilPtr /\ ~tr.handled
    /\ ChainLen(heap, tr.exception) = 2
    /\ heap[tr.exception].Type = WrappingKind

\* an exception that Try made from a bare kind value at the top of tryBlock
BareOrigin(e) ==
    /\ e.Type \in { p.kind : p \in BarePayloads }
    /\ e.StackTrace = getStackTrace(RecoverStack(0))
    /\ e.Inner = NilPtr

\* C28: a bare kind value that tryBlock panics with is wrapped by Try in a
\* fresh Exception whose Type is that value and whose Inner is nil, and a
\* handler declared for a kind then fires on it exactly as on the same value
\* raised through Throw.
C28_BareKindWrappedLikeThrow ==
    [][/\ (last'.op = "Try" /\ last'.block.do = "panic"
                            /\ last'.block.payload.dyn = "kind") =>
             /\ tr' = TryResult(1)
             /\ heap' = << NewException(last'.block.payload.kind,
                                        getStackTrace(RecoverStack(0)), NilPtr) >>
             /\ heap'[1].Type = Throw(last'.block.payload.kind, 0).Type
             /\ heap'[1].Inner = Throw(last'.block.payload.kind, 0).Inner
       /\ (last'.op = "Catch" /\ Live(tr) /\ BareOrigin(heap[tr.exception])) =>
             LET hd == last'.hs[1]
                 thrown == Throw(heap[tr.exception].Type, 0)
                 viaThrow == Catch(typeCache, TryResult(1), << thrown >>, hd, last'.faulted)
             IN  /\ tr'.handled = viaThrow.handled
                 /\ typeCache' = viaThrow.cache
                 /\ last'.outcome = viaThrow.outcome
                 /\ Len(last'.fired) = Len(viaThrow.fired)
                 /\ last'.fired # << >> =>
                       /\ last'.fired[1].kind = viaThrow.fired[1].kind
                       /\ last'.fired[1].h = viaThrow.fired[1].h
                       /\ last'.fired[1].ex.Type = thrown.Type
                 /\ (typeCache = << >> /\ hd.T = TypeOf(thrown.Type)) =>
                       /\ last'.fired # << >>
                       /\ last'.fired[1].kind = heap[tr.exception].Type]_vars

\* C28 witness: Catch for CustomA fired, with the value CustomA("x"), on an
\* exception that Try made from panic(CustomA("x")).
C28_Witness ==
    /\ last.op = "Catch" /\ PreLive /\ BareOrigin(PreEx)
    /\ last.hs = << Handler("CustomA") >>
    /\ last.fired # << >> /\ last.fired[1].kind = CustomA("x")
    /\ last.outcome = "returned" /\ tr.handled

\* the statements of isTypeMatch
InIsTypeMatch == {"RLock", "lookup", "RUnlock", "Lock", "store", "Unlock"}

\* C29: every read of typeCache in isTypeMatch happens with typeCacheMutex
\* held for reading, every write with it held for writing, and no write is
\* concurrent with another read or write of the map.
C29_CacheAccessUnderLock ==
    /\ \A g \in DOMAIN goroutines :
          /\ goroutines[g].pc = "lookup" => g \in typeCacheMutex.readers
          /\ goroutines[g].pc = "store" => typeCacheMutex.writer = g
    /\ typeCacheMutex.writer # 0 => typeCacheMutex.readers = {}
    /\ \A g, o \in DOMAIN goroutines :
          (g # o /\ goroutines[g].pc = "store") =>
              goroutines[o].pc \notin {"lookup", "store"}

\* C29 witness: one goroutine is about to write the map under the write lock
\* while another waits for the read lock.
C29_Witness ==
    \E g, o \in DOMAIN goroutines :
        /\ g # o
        /\ goroutines[g].pc = "store" /\ typeCacheMutex.writer = g
        /\ goroutines[o].pc = "RLock"

\* C30: isTypeMatch holds a lock only between acquiring and releasing it, on
\* the hit path and on the miss path, and never holds the read lock while it
\* acquires the write lock; under fair scheduling every isTypeMatch call
\* returns and every goroutine finishes.
C30_LocksReleasedAndCallsReturn ==
    /\ [](\A g \in Goroutines :
            /\ g \in typeCacheMutex.readers <=> goroutines[g].pc \in {"lookup", "RUnlock"}
            /\ typeCacheMutex.writer = g <=> goroutines[g].pc \in {"store", "Unlock"}
            /\ goroutines[g].pc = "Lock" => g \notin typeCacheMutex.readers)
    /\ \A g \in Goroutines :
          (goroutines[g].pc \in InIsTypeMatch) ~> (goroutines[g].pc = "return")
    /\ <>[](\A g \in Goroutines : goroutines[g].pc = "done")
    /\ <>[](typeCacheMutex = Unlocked)

\* C30 witness: a goroutine returned from isTypeMatch by the miss path (it
\* stored its own key) and holds no lock, while another holds the read lock.
C30_Witness ==
    \E g, o \in DOMAIN goroutines :
        /\ g # o
        /\ goroutines[g].pc = "return" /\ ~goroutines[g].exists
        /\ g \notin typeCacheMutex.readers /\ typeCacheMutex.writer # g
        /\ goroutines[o].pc = "lookup" /\ o \in typeCacheMutex.readers

(***************************************************************************)
(* C31 .. C39                                                              *)
(***************************************************************************)
\* C31: isTypeMatch[T](actualType) never returns true when actualType differs
\* from T, in any cache state and in any interleaving of concurrent lookups,
\* so the type assertion Type.(T) after a positive match never panics.
C31_PositiveMatchIsExact ==
    \A g \in DOMAIN goroutines :
        /\ (goroutines[g].pc = "return" /\ goroutines[g].match) =>
               TypeOf(goroutines[g].ex.Type) = cacheKey(g)
        /\ goroutines[g].pc # "panicked"

\* C31 witness: a lookup found `true` cached for a declared type that differs
\* from the actual type and returned false.
C31_Witness ==
    \E g \in DOMAIN goroutines :
        /\ goroutines[g].pc = "return"
        /\ goroutines[g].exists /\ goroutines[g].cached
        /\ TypeOf(goroutines[g].ex.Type) # cacheKey(g)
        /\ ~goroutines[g].match

\* the dispatch call just made, made once more on the result as it is now,
\* with a handler that returns
Again ==
    CASE last.op = "Catch" -> Catch(typeCache, tr, heap, last.hs[1], FALSE)
      [] last.op = "On" -> On(typeCache, When(tr), heap, last.hs[1], FALSE)
      [] last.op = "Handle" -> Handle(typeCache, tr, heap, last.hs, FALSE)
      [] last.op = "Any" -> TryResultAny(typeCache, tr, heap, HandlerAny, FALSE)
      [] last.op = "CatchBuilder.Any" ->
            CatchBuilderAny(typeCache, When(tr), heap, HandlerAny, FALSE)

\* C32: if a handler invoked by Catch, On, Handle or Any panics, the panic
\* reaches the caller of the dispatch call and the handled flag is still
\* false, so that a later dispatch call on the same result invokes a handler
\* again for the same exception.
C32_HandlerPanicLeavesUnclaimed ==
    (last.op \in TypedDispatch \cup AnyDispatch /\ last.faulted) =>
        /\ last.outcome = "panicked" /\ last.thrown = HandlerFault
        /\ PreLive /\ tr = last.pre /\ ~tr.handled
        /\ Len(last.fired) = 1 /\ last.fired[1].ex = heap[tr.exception]
        /\ Again.fired = last.fired /\ Again.handled /\ Again.outcome = "returned"
        /\ TryResultAny(typeCache, tr, heap, HandlerAny, FALSE).fired =
              << Invocation(1, HandlerAny, NoKind, heap[tr.exception]) >>

\* C32 witness: the second handler of a Handle call panicked and the result
\* is still unclaimed.
C32_Witness ==
    /\ last.op = "Handle" /\ last.faulted /\ Len(last.hs) = 2
    /\ last.fired # << >> /\ last.fired[1].pos = 2
    /\ last.outcome = "panicked" /\ ~tr.handled /\ tr.exception # NilPtr

\* C33: in every reachable state of a TryResult, handled = true implies that
\* the result carries an exception: a result without an exception is never
\* claimed, whatever dispatch, Finally and Rethrow calls are applied to it.
C33_HandledImpliesException ==
    /\ tr.handled => (~tr.nil /\ tr.exception # NilPtr /\ tr.exception \in DOMAIN heap)
    /\ (last.op \notin {"-", "Try"} /\ last.pre.exception = NilPtr) =>
          (~tr.handled /\ last.fired = << >>)

\* C33 witness: Handle with a non-empty handler list on a result without
\* exception returned and left it unclaimed.
C33_Witness ==
    /\ last.op = "Handle" /\ PreClean /\ last.hs # << >>
    /\ last.outcome = "returned" /\ ~tr.handled /\ tr.exception = NilPtr

\* the exceptions are what they were: a call other than Try leaves every
\* exception as it is, and Try keeps the Type, StackTrace and Inner of every
\* exception that the new exception links to or copies
ExceptionsUnchanged ==
    /\ last'.op \notin {"-", "Try"} => heap' = heap
    /\ (last'.op = "Try" /\ last'.block.do = "ThrowWithInner") =>
          ChainContents(heap', heap'[tr'.exception].Inner)
              = ChainContents(heap, last'.block.inner)
    /\ (last'.op = "Try" /\ last'.block.do = "Rethrow" /\ Live(tr)) =>
          ChainContents(heap', tr'.exception) = ChainContents(heap, tr.exception)

\* of the TryResult, a call other than Try changes at most the handled flag,
\* and only dispatch does
ResultKeepsException ==
    last'.op \notin {"-", "Try"} =>
        /\ tr' = [tr EXCEPT !.handled = tr'.handled]
        /\ last'.op \notin TypedDispatch \cup AnyDispatch => tr' = tr

\* C34: once an exception is constructed no library operation modifies its
\* Type, StackTrace or Inner, and of the TryResult and its exceptions the
\* only thing dispatch changes is the handled flag.  (Beside them, dispatch
\* with typed handlers adds to typeCache an entry for each declared type it
\* looks up for the first time, and overwrites none.)
C34_ExceptionsImmutable ==
    [][/\ ExceptionsUnchanged
       /\ ResultKeepsException
       /\ last'.op \in TypedDispatch \cup AnyDispatch =>
             /\ \A k \in DOMAIN typeCache :
                   k \in DOMAIN typeCache' /\ typeCache'[k] = typeCache[k]
             /\ DOMAIN typeCache' \ DOMAIN typeCache
                   \subseteq { getTypeOf(last'.hs[i].T) : i \in DOMAIN last'.hs }
             /\ last'.op \in AnyDispatch => typeCache' = typeCache]_vars

\* C34 witness: Handle invoked a handler and claimed the result; the stored
\* exception of a chain of two is the one the handler was given, and the
\* cache has an entry for the handler's declared type.
C34_Witness ==
    /\ last.op = "Handle" /\ PreLive /\ last.fired # << >> /\ tr.handled
    /\ ChainLen(heap, tr.exception) = 2
    /\ heap[tr.exception] = last.fired[1].ex
    /\ getTypeOf(TypeOf(heap[tr.exception].Type)) \in DOMAIN typeCache

\* C35: ThrowWithInner(kind, inner) raises a new exception whose Type is
\* kind, whose Inner is the given pointer and whose StackTrace is the one
\* captured at the ThrowWithInner call, whatever the StackTrace of inner;
\* the inner exception and its chain are unchanged.
C35_ThrowWithInnerCapturesAnew ==
    [][(last'.op = "Try" /\ last'.block.do = "ThrowWithInner") =>
          LET b == last'.block
              new == heap'[tr'.exception]
          IN  /\ tr'.exception # NilPtr /\ ~tr'.handled
              /\ new.Type = b.kind
              /\ (new.Inner = NilPtr) <=> (b.inner = NilPtr)
              /\ ChainContents(heap', new.Inner) = ChainContents(heap, b.inner)
              /\ new.StackTrace =
                    getStackTrace(<< "goexceptions.getStackTrace",
                                     "goexceptions.ThrowWithInner" >>
                                      \o UserFrames(b.depth) \o OuterFrames)
              /\ Len(new.StackTrace) > 0]_vars

\* C35 witness: the new exception links to an inner exception whose
\* StackTrace differs from its own.
C35_Witness ==
    /\ last.op = "Try" /\ last.block.do = "ThrowWithInner" /\ last.block.inner # NilPtr
    /\ tr.exception # NilPtr /\ heap[tr.exception].Inner # NilPtr
    /\ heap[tr.exception].StackTrace # heap[heap[tr.exception].Inner].StackTrace
    /\ heap[tr.exception].Type = WrappingKind

\* the call stack at the getStackTrace() call that captured the StackTrace of
\* the exception a Try of block b stored
CallersOf(b) ==
    CASE b.do = "Throw" -> ThrowStack("goexceptions.Throw", b.depth)
      [] b.do = "ThrowWithInner" -> ThrowStack("goexceptions.ThrowWithInner", b.depth)
      [] b.do = "panic" -> RecoverStack(b.depth)

\* the frames runtime.Caller(FirstCaller) .. runtime.Caller(LastCaller - 1)
\* that exist
Inspected(callers) ==
    SubSeq(callers, FirstCaller + 1,
           IF Len(callers) < LastCaller THEN Len(callers) ELSE LastCaller)

IsUserFrame(f) == f \notin RuntimeFrames

\* C38: every captured StackTrace has at most 12 entries, for any call depth
\* at the throw or interception site: getStackTrace inspects at most 12
\* consecutive caller frames and stops at the first frame that does not
\* exist.
C38_StackTraceBounded ==
    /\ \A p \in DOMAIN heap : Len(heap[p].StackTrace) <= LastCaller - FirstCaller
    /\ (last.op = "Try" /\ tr.exception # NilPtr) =>
          /\ Len(Inspected(CallersOf(last.block))) <= LastCaller - FirstCaller
          /\ heap[tr.exception].StackTrace =
                SelectSeq(Inspected(CallersOf(last.block)), IsUserFrame)

\* C38 witness: a throw from deeper than the limit gave a StackTrace of
\* exactly LastCaller - FirstCaller entries, with frames left uninspected.
C38_Witness ==
    /\ last.op = "Try" /\ last.block.do = "Throw" /\ last.block.depth = MaxDepth
    /\ tr.exception # NilPtr
    /\ Len(heap[tr.exception].StackTrace) = LastCaller - FirstCaller
    /\ Len(CallersOf(last.block)) > LastCaller

\* frames of the library's interception and dispatch machinery
LibraryFrames ==
    { "goexceptions.getStackTrace", "goexceptions.Throw", "goexceptions.ThrowWithInner",
      "goexceptions.ThrowArgumentNull", "goexceptions.ThrowIfNil", "goexceptions.ThrowIf",
      "goexceptions.Try", "goexceptions.Try.func1", "goexceptions.Try.func1.1" }

\* C39: no entry of a captured StackTrace is a frame of the library's own
\* interception or dispatch machinery or of the native panic runtime, for
\* exceptions raised through Throw / ThrowWithInner and for native panics
\* intercepted by Try.
C39_NoMachineryFrames ==
    \A p \in DOMAIN heap :
        \A i \in DOMAIN heap[p].StackTrace :
            heap[p].StackTrace[i] \notin LibraryFrames \cup RuntimeFrames

\* C36: a typed handler matches only an exception whose kind's runtime type
\* is exactly the declared type: a handler declared for the interface
\* ExceptionType or for the pointer type *K never matches a kind of the
\* value type K, and a handler for K never matches a kind of type *K.
C36_MatchIsExactType ==
    (last.op \in TypedDispatch /\ PreLive) =>
        LET T == last.hs[1].T
            actualType == TypeOf(PreEx.Type)
        IN  /\ last.fired # << >> => actualType = T
            /\ actualType # T =>
                  /\ last.fired = << >> /\ ~tr.handled
                  /\ last.outcome = "returned"

\* C36 witness: a handler declared for ExceptionType, which the kind
\* implements, did not fire for a CustomA thrown by value.
C36_Witness ==
    /\ last.op = "Catch" /\ PreLive
    /\ last.hs = << Handler("ExceptionType") >>
    /\ PreEx.Type = CustomA("x") /\ AssignableTo(TypeOf(PreEx.Type), "ExceptionType")
    /\ last.fired = << >> /\ ~tr.handled /\ last.outcome = "returned"

\* the positions of the throw statements of the tryBlock just run
ThrowsAt == { i \in DOMAIN last.block.script : last.block.script[i] # "mark" }

\* the position of its first throw statement, one past its end if it has none
FirstThrow ==
    IF ThrowsAt = {} THEN Len(last.block.script) + 1
    ELSE CHOOSE i \in ThrowsAt : \A j \in ThrowsAt : i <= j

\* the kind each throw statement raises
RaisedKind(st) ==
    CASE st = "Throw" -> CustomA("x")
      [] st = "ThrowWithInner" -> WrappingKind
      [] st = "ThrowArgumentNull" -> ArgumentNullException("user", "")
      [] st = "ThrowInvalidOperation" -> InvalidOperationException("failed")

\* C37: Throw, ThrowWithInner and the Throw* helpers never return to their
\* caller: the statements of tryBlock after a throw are not executed, every
\* side effect made before it is kept, and the result Try returns is that of
\* the statement at which tryBlock stopped.
C37_ThrowNeverReturns ==
    (last.op = "Try" /\ last.block.do = "Script") =>
        LET stmts == last.block.script
            before == { i \in DOMAIN stmts : stmts[i] = "mark" /\ i < FirstThrow }
        IN  /\ { last.marks[j] : j \in DOMAIN last.marks } = before
            /\ Len(last.marks) = Cardinality(before)
            /\ ThrowsAt # {} =>
                  /\ last.steps = FirstThrow
                  /\ tr.exception # NilPtr
                  /\ heap[tr.exception].Type = RaisedKind(stmts[FirstThrow])
            /\ ThrowsAt = {} =>
                  /\ last.steps = Len(stmts)
                  /\ tr = TryResult(NilPtr)

\* C37 witness: of a side effect before and one after a ThrowArgumentNull
\* call only the first was made, and Try stored the ArgumentNullException.
C37_Witness ==
    /\ last.op = "Try"
    /\ last.block.script = << "mark", "ThrowArgumentNull", "mark" >>
    /\ last.marks = << 1 >> /\ last.steps = 2
    /\ tr.exception # NilPtr
    /\ heap[tr.exception].Type = ArgumentNullException("user", "")

====
